---- MODULE Spec2Model ----
(***************************************************************************)
(* Squish XML snapshot viewer: the XML-to-render-tree transformation       *)
(* (build_tree_html), the tkinter tree builder (add_tree_item) and the     *)
(* screenshot overlay logic of the generated HTML page.                    *)
(***************************************************************************)
EXTENDS Integers, Sequences, FiniteSets, TLC

VARIABLES
    doc,          \* the parsed XML root (ET.fromstring result)
    tree,         \* nodes emitted by the latest build_tree_html run (DOM order)
    prevTree,     \* nodes emitted by the run before the latest one
    lastCounter,  \* counter["i"] as returned by the latest run (0: no run yet)
    runs,         \* number of build_tree_html runs so far
    tkTree,       \* items of the tkinter Treeview after populate_tree
    viewer,       \* which program shows the document: "html", "tk" or "simple"
    hasScreenshot,       \* the document carries a PNG the viewer displays
    display,             \* displayed size <<width, height>> of the screenshot image
    currentSelectedNode, \* HTML page: index of the selected .node, 0 for null
    screenshotGeometry,  \* HTML page: the overlay reference origin, or null
    overlays,            \* HTML page: overlay elements inside #screenshotContainer
    timers,              \* HTML page: pending setTimeout(updateElementOverlay, 100)
    tkSelection,         \* tkinter: selected Treeview item, 0 for none
    tkOverlays,          \* tkinter: canvas rectangles tagged element_overlay
    simpleTree,          \* simple desktop page: .tree-item nodes
    selectedElement,     \* simple desktop page: selected node, 0 for null
    simpleOverlays,      \* simple desktop page: .element-overlay elements
    screenshot_b64,      \* generate_html: the screenshot it embeds
    hybridScreenshot,    \* hybrid viewer: outcome of generate_screenshot_html
    file,                \* the file behind the path given to a loader
    htmlResult,          \* squish_xml_viewer.py: outcome of generate_html's load
    desktopResult,       \* squish_xml_viewer_desktop.py: outcome of load_xml_file
    consoleResult,       \* squish_xml_console.py: outcome of load_xml_file
    tkResult,            \* tkinter viewer: outcome of load_xml_file's parse
    cliVariant,          \* which command-line program is started
    argvPath,            \* sys.argv carries the path argument
    xml_path,            \* the file sys.argv[1] points to
    outWritable,         \* the _viewer.html file can be written
    htmlOnDisk,          \* the _viewer.html file exists
    templatesPresent,    \* templated variant: its template files are installed
    webviewAvailable,    \* minimal desktop variant: pywebview imports
    exitStatus,          \* how main ended
    disk,                \* desktop viewers: what is behind each path
    current_file,        \* desktop viewers: self.current_file
    xml_data,            \* desktop viewers: self.xml_data, named by the path it was parsed from
    treeview,            \* desktop viewers: the document the tree widget shows
    messagebox,          \* desktop viewers: the error dialog shown last
    appVariant,          \* which application starts: hybrid, backup or main_app
    config,              \* the persisted config file
    existingPaths,       \* the paths that exist when the application starts
    startup,             \* how startup ended and what it restored
    toast_windows,       \* ToastNotification.toast_windows: the toasts on screen, oldest first
    toasts,              \* per toast created so far: its alpha step and the position of its animation
    thread,              \* the thread that executed the last step: ui, worker or timer
    current_xml_path,    \* folder view: the file shown in the content area
    folderTimers,        \* folder view: started threading.Timer objects that have not fired
    xmlNode,             \* the XML element a tree node is rendered from
    data_xml,            \* the data-xml attribute as written into the HTML file
    domDataXml,          \* the data-xml attribute of the span after the page is parsed
    selectedXml,         \* what getSelectedNodeXml returned
    propertyEntries,     \* the property children of the selected element's properties child
    sort_var,            \* tkinter viewer: the Sort combobox
    propertyMap,         \* HTML viewer: the properties dict after the properties list
    propertyRows,        \* tkinter viewer: the rows of the Properties group
    desktopTree,         \* webview desktop viewer: the nodes generate_html_content rendered
    recent_files,        \* backup desktop viewer: self.recent_files, most recent first
    savedRecent,         \* the recent_files list in the config file
    recentCalls,         \* handlers run on the recent-files list so far
    xml_files,           \* hybrid viewer: the paths of self.xml_files, in list order
    current_xml_file,    \* hybrid viewer: self.current_xml_file
    selectedItem,        \* hybrid viewer: the path of the file list's current item
    webviewPage,         \* hybrid viewer: the path whose page the web view shows, or welcome
    file_list_panel,     \* hybrid viewer: the file list panel is visible
    is_restoring_session, \* hybrid viewer: self.is_restoring_session
    settingsFile,        \* hybrid viewer: last_files in the settings file
    hyExisting,          \* hybrid viewer: the paths that exist on disk
    hyPhase,             \* hybrid viewer: starting, restoring, running or closed
    restoreQueue,        \* hybrid viewer: the last files restore_last_session has yet to load
    hyOutcome,           \* hybrid viewer: the handler that ran last and how it ended
    maDisk,              \* main_app: per path, the state of the file on disk
    maAssets,            \* main_app: the template, style and script files are installed
    last_opened_file,    \* main_app: the path in .last_opened_file, None without the file
    maPage,              \* main_app: what the window shows
    maOutcome            \* main_app: the handler that ran last

treeVars == <<tree, prevTree, lastCounter, runs>>
htmlVars == <<currentSelectedNode, screenshotGeometry, overlays, timers>>
tkVars == <<tkSelection, tkOverlays>>
simpleVars == <<simpleTree, selectedElement, simpleOverlays>>
inputVars == <<doc, viewer, hasScreenshot>>

viewerVars == <<doc, tree, prevTree, lastCounter, runs, tkTree, viewer, hasScreenshot,
                display, currentSelectedNode, screenshotGeometry, overlays, timers,
                tkSelection, tkOverlays, simpleTree, selectedElement, simpleOverlays>>
imageVars == <<screenshot_b64, hybridScreenshot>>
loaderVars == <<file, htmlResult, desktopResult, consoleResult, tkResult>>
cliVars == <<cliVariant, argvPath, xml_path, outWritable, htmlOnDisk, templatesPresent, webviewAvailable, exitStatus>>
deskVars == <<disk, current_file, xml_data, treeview, messagebox>>
configVars == <<appVariant, config, existingPaths, startup>>
threadVars == <<toast_windows, toasts, thread, current_xml_path, folderTimers>>
xmlVars == <<xmlNode, data_xml, domDataXml, selectedXml>>
paneVars == <<propertyEntries, sort_var, propertyMap, propertyRows>>
rootVars == <<desktopTree>>
recentVars == <<recent_files, savedRecent, recentCalls>>
hybridVars == <<xml_files, current_xml_file, selectedItem, webviewPage, file_list_panel, is_restoring_session, settingsFile, hyExisting, hyPhase, restoreQueue, hyOutcome>>
mainappVars == <<maDisk, maAssets, last_opened_file, maPage, maOutcome>>
sessionVars == <<imageVars, loaderVars, cliVars, deskVars, configVars, threadVars, xmlVars, paneVars, rootVars, recentVars, hybridVars, mainappVars>>

vars == <<viewerVars, sessionVars>>

(***************************************************************************)
(* Bounds of the model.                                                    *)
(***************************************************************************)
MaxTreeNodes == 5     \* XML nodes per document in the tree specification
MaxRuns == 3          \* render passes per behaviour
MaxOverlayNodes == 3  \* elements per document in the overlay specification
MaxTimers == 2        \* resize timers pending at once

(***************************************************************************)
(* Sentinels.                                                              *)
(***************************************************************************)
Absent == "<absent>"  \* a child element or attribute that is not there
NoTree == <<>>        \* no render pass has run yet
Undefined == "<undefined>"   \* JavaScript undefined
NullGeometry == [set |-> FALSE, x |-> 0, y |-> 0]   \* screenshotGeometry = null
NaturalSize == <<400, 300>>  \* naturalWidth, naturalHeight of the screenshot
NoFile == [exists |-> FALSE, readable |-> FALSE, bytes |-> <<>>]   \* no such file
None == "None"                    \* Python None
NoConfig == [kind |-> "missing", files |-> <<>>]   \* no config file was ever saved
NoText == <<"None">>               \* a text that has not been produced yet
NoRows == <<<<"None", "None">>>>   \* a list of (name, value) pairs that has not been built yet
LoadingPage == [kind |-> "loading", path |-> "None"]   \* main_app: the window before load_html
NoOutcome == [op |-> "none"]       \* no handler has run yet
NotRun == [state |-> "not run"]   \* an operation that has not been called yet

\* per group of file-level variables: nothing has been started
ImageIdle ==
    /\ screenshot_b64 = NotRun
    /\ hybridScreenshot = NotRun

LoaderNotRun ==
    /\ htmlResult = NotRun
    /\ desktopResult = NotRun
    /\ consoleResult = NotRun
    /\ tkResult = NotRun

LoaderIdle == file = NoFile /\ LoaderNotRun

CliIdle ==
    /\ cliVariant = "viewer"
    /\ argvPath = FALSE
    /\ xml_path = NoFile
    /\ outWritable = TRUE
    /\ htmlOnDisk = FALSE
    /\ templatesPresent = TRUE
    /\ webviewAvailable = FALSE
    /\ exitStatus = NotRun

DeskIdle ==
    /\ disk = <<>>
    /\ current_file = None
    /\ xml_data = None
    /\ treeview = None
    /\ messagebox = None

ConfigIdle ==
    /\ appVariant = "hybrid"
    /\ config = NoConfig
    /\ existingPaths = {}
    /\ startup = NotRun

ThreadIdle ==
    /\ toast_windows = <<>>
    /\ toasts = <<>>
    /\ thread = "ui"
    /\ current_xml_path = None
    /\ folderTimers = 0

XmlIdle ==
    /\ xmlNode = None
    /\ data_xml = NoText
    /\ domDataXml = NoText
    /\ selectedXml = NoText

PaneIdle ==
    /\ propertyEntries = <<>>
    /\ sort_var = "desc"
    /\ propertyMap = NoRows
    /\ propertyRows = NoRows

RootIdle ==
    /\ desktopTree = NoTree

RecentIdle ==
    /\ recent_files = <<>>
    /\ savedRecent = <<>>
    /\ recentCalls = 0

HybridIdle ==
    /\ xml_files = <<>>
    /\ current_xml_file = None
    /\ selectedItem = None
    /\ webviewPage = "welcome"
    /\ file_list_panel = FALSE
    /\ is_restoring_session = FALSE
    /\ settingsFile = <<>>
    /\ hyExisting = {}
    /\ hyPhase = "starting"
    /\ restoreQueue = <<>>
    /\ hyOutcome = NoOutcome

MainappIdle ==
    /\ maDisk = <<>>
    /\ maAssets = FALSE
    /\ last_opened_file = None
    /\ maPage = LoadingPage
    /\ maOutcome = NoOutcome

SessionIdle == ImageIdle /\ LoaderIdle /\ CliIdle /\ DeskIdle /\ ConfigIdle /\ ThreadIdle /\ XmlIdle /\ PaneIdle /\ RootIdle /\ RecentIdle /\ HybridIdle /\ MainappIdle

\* the groups an operation of one group leaves alone
othersImage == <<loaderVars, cliVars, deskVars, configVars, threadVars, xmlVars, paneVars, rootVars, recentVars, hybridVars, mainappVars>>
othersLoader == <<imageVars, cliVars, deskVars, configVars, threadVars, xmlVars, paneVars, rootVars, recentVars, hybridVars, mainappVars>>
othersCli == <<imageVars, loaderVars, deskVars, configVars, threadVars, xmlVars, paneVars, rootVars, recentVars, hybridVars, mainappVars>>
othersDesk == <<imageVars, loaderVars, cliVars, configVars, threadVars, xmlVars, paneVars, rootVars, recentVars, hybridVars, mainappVars>>
othersConfig == <<imageVars, loaderVars, cliVars, deskVars, threadVars, xmlVars, paneVars, rootVars, recentVars, hybridVars, mainappVars>>
othersThread == <<imageVars, loaderVars, cliVars, deskVars, configVars, xmlVars, paneVars, rootVars, recentVars, hybridVars, mainappVars>>
othersXml == <<imageVars, loaderVars, cliVars, deskVars, configVars, threadVars, paneVars, rootVars, recentVars, hybridVars, mainappVars>>
othersPane == <<imageVars, loaderVars, cliVars, deskVars, configVars, threadVars, xmlVars, rootVars, recentVars, hybridVars, mainappVars>>
othersRoot == <<imageVars, loaderVars, cliVars, deskVars, configVars, threadVars, xmlVars, paneVars, recentVars, hybridVars, mainappVars>>
othersRecent == <<imageVars, loaderVars, cliVars, deskVars, configVars, threadVars, xmlVars, paneVars, rootVars, hybridVars, mainappVars>>
othersHybrid == <<imageVars, loaderVars, cliVars, deskVars, configVars, threadVars, xmlVars, paneVars, rootVars, recentVars, mainappVars>>
othersMainapp == <<imageVars, loaderVars, cliVars, deskVars, configVars, threadVars, xmlVars, paneVars, rootVars, recentVars, hybridVars>>

IdleButImage == LoaderIdle /\ CliIdle /\ DeskIdle /\ ConfigIdle /\ ThreadIdle /\ XmlIdle /\ PaneIdle /\ RootIdle /\ RecentIdle /\ HybridIdle /\ MainappIdle

IdleButLoader == ImageIdle /\ CliIdle /\ DeskIdle /\ ConfigIdle /\ ThreadIdle /\ XmlIdle /\ PaneIdle /\ RootIdle /\ RecentIdle /\ HybridIdle /\ MainappIdle

IdleButCli == ImageIdle /\ LoaderIdle /\ DeskIdle /\ ConfigIdle /\ ThreadIdle /\ XmlIdle /\ PaneIdle /\ RootIdle /\ RecentIdle /\ HybridIdle /\ MainappIdle

IdleButDesk == ImageIdle /\ LoaderIdle /\ CliIdle /\ ConfigIdle /\ ThreadIdle /\ XmlIdle /\ PaneIdle /\ RootIdle /\ RecentIdle /\ HybridIdle /\ MainappIdle

IdleButConfig == ImageIdle /\ LoaderIdle /\ CliIdle /\ DeskIdle /\ ThreadIdle /\ XmlIdle /\ PaneIdle /\ RootIdle /\ RecentIdle /\ HybridIdle /\ MainappIdle

IdleButThread == ImageIdle /\ LoaderIdle /\ CliIdle /\ DeskIdle /\ ConfigIdle /\ XmlIdle /\ PaneIdle /\ RootIdle /\ RecentIdle /\ HybridIdle /\ MainappIdle

IdleButXml == ImageIdle /\ LoaderIdle /\ CliIdle /\ DeskIdle /\ ConfigIdle /\ ThreadIdle /\ PaneIdle /\ RootIdle /\ RecentIdle /\ HybridIdle /\ MainappIdle

IdleButPane == ImageIdle /\ LoaderIdle /\ CliIdle /\ DeskIdle /\ ConfigIdle /\ ThreadIdle /\ XmlIdle /\ RootIdle /\ RecentIdle /\ HybridIdle /\ MainappIdle

IdleButRoot == ImageIdle /\ LoaderIdle /\ CliIdle /\ DeskIdle /\ ConfigIdle /\ ThreadIdle /\ XmlIdle /\ PaneIdle /\ RecentIdle /\ HybridIdle /\ MainappIdle

IdleButRecent == ImageIdle /\ LoaderIdle /\ CliIdle /\ DeskIdle /\ ConfigIdle /\ ThreadIdle /\ XmlIdle /\ PaneIdle /\ RootIdle /\ HybridIdle /\ MainappIdle

IdleButHybrid == ImageIdle /\ LoaderIdle /\ CliIdle /\ DeskIdle /\ ConfigIdle /\ ThreadIdle /\ XmlIdle /\ PaneIdle /\ RootIdle /\ RecentIdle /\ MainappIdle

IdleButMainapp == ImageIdle /\ LoaderIdle /\ CliIdle /\ DeskIdle /\ ConfigIdle /\ ThreadIdle /\ XmlIdle /\ PaneIdle /\ RootIdle /\ RecentIdle /\ HybridIdle

(***************************************************************************)
(* The viewers' page-level state while only file-level code runs.          *)
(***************************************************************************)
ViewerIdle ==
    /\ tree = NoTree
    /\ prevTree = NoTree
    /\ lastCounter = 0
    /\ runs = 0
    /\ tkTree = NoTree
    /\ viewer = "html"
    /\ hasScreenshot = FALSE
    /\ display = NaturalSize
    /\ currentSelectedNode = 0
    /\ screenshotGeometry = NullGeometry
    /\ overlays = <<>>
    /\ timers = 0
    /\ tkSelection = 0
    /\ tkOverlays = <<>>
    /\ simpleTree = NoTree
    /\ selectedElement = 0
    /\ simpleOverlays = <<>>

(***************************************************************************)
(* Python dict: insertion-ordered sequence of <<key, value>> pairs with    *)
(* unique keys.  d[k] = v overwrites in place or appends a new key.        *)
(***************************************************************************)
DictHas(d, k) == \E i \in DOMAIN d : d[i][1] = k

DictGet(d, k) == d[CHOOSE i \in DOMAIN d : d[i][1] = k][2]

DictKeys(d) == {d[i][1] : i \in DOMAIN d}

\* A setdefault-style write: an existing key keeps its first value.
DictSetFirstWins(d, k, v) ==
    IF DictHas(d, k) THEN d ELSE Append(d, <<k, v>>)

DictSet(d, k, v) ==
    IF DictHas(d, k)
    THEN [i \in DOMAIN d |-> IF d[i][1] = k THEN <<k, v>> ELSE d[i]]
    ELSE Append(d, <<k, v>>)

RECURSIVE DictUpdate(_, _)
DictUpdate(d, pairs) ==
    IF pairs = <<>> THEN d
    ELSE DictUpdate(DictSet(d, Head(pairs)[1], Head(pairs)[2]), Tail(pairs))

\* dict.get(k, default)
DictGetOr(d, k, default) == IF DictHas(d, k) THEN DictGet(d, k) ELSE default

(***************************************************************************)
(* SourceElement.  kids holds the element- and children-tagged child       *)
(* elements in document order; the other fields are what node.find(...)    *)
(* returns for the property-carrying children.  A text of "" stands for    *)
(* Python's None/"" (both falsy), Absent for a child that does not exist.  *)
(***************************************************************************)
NoGeometry == [present |-> FALSE, x |-> Absent, y |-> Absent,
               width |-> Absent, height |-> Absent]

EmptyPayload ==
    [attrib     |-> <<>>,
     realname   |-> Absent,
     superclass |-> [present |-> FALSE, classes |-> <<>>],
     geometry   |-> NoGeometry,
     visual     |-> [present |-> FALSE, attrib |-> <<>>],
     properties |-> [present |-> FALSE, props |-> <<>>]]

MkNode(tag, payload, kids) == [tag |-> tag, kids |-> kids] @@ payload

(***************************************************************************)
(* Label derivation, build_tree_html lines 58-74.                          *)
(***************************************************************************)
LabelOf(tag, attrib) ==
    LET simplified_type == DictGetOr(attrib, "simplifiedType", "")
        object_name     == DictGetOr(attrib, "objectName", "")
        class_name      == DictGetOr(attrib, "class", "")
    IN  IF simplified_type # ""
        THEN IF object_name # ""
             THEN simplified_type \o " (" \o object_name \o ")"
             ELSE simplified_type
        ELSE IF object_name # ""
             THEN tag \o " (" \o object_name \o ")"
             ELSE IF class_name # ""
                  THEN tag \o " (" \o class_name \o ")"
                  ELSE tag

(***************************************************************************)
(* Child discovery, build_tree_html lines 123-130.  Each child comes with  *)
(* its path relative to the node (indices into kids).                      *)
(***************************************************************************)
ElementKids(node, prefix) ==
    LET idx == SelectSeq([i \in 1..Len(node.kids) |-> i],
                         LAMBDA i : node.kids[i].tag = "element")
    IN  [k \in 1..Len(idx) |->
            [rel |-> Append(prefix, idx[k]), node |-> node.kids[idx[k]]]]

HasChildrenElem(node) == \E i \in 1..Len(node.kids) : node.kids[i].tag = "children"

FirstChildrenElem(node) ==
    CHOOSE i \in 1..Len(node.kids) :
        /\ node.kids[i].tag = "children"
        /\ \A j \in 1..(i - 1) : node.kids[j].tag # "children"

\* A merge of both sources (wrapped children, then direct children).
ChildrenMerged(node) ==
    IF HasChildrenElem(node)
    THEN ElementKids(node.kids[FirstChildrenElem(node)], <<FirstChildrenElem(node)>>)
         \o ElementKids(node, <<>>)
    ELSE ElementKids(node, <<>>)

Children(node) ==
    IF HasChildrenElem(node)
    THEN ElementKids(node.kids[FirstChildrenElem(node)], <<FirstChildrenElem(node)>>)
    ELSE ElementKids(node, <<>>)

(***************************************************************************)
(* Text helpers over the bounded vocabulary of the model.                  *)
(***************************************************************************)
\* str.strip(): surrounding whitespace removed
Strip(s) ==
    CASE s = " "    -> ""
      [] s = " rn " -> "rn"
      [] s = " 7 "  -> "7"
      [] OTHER      -> s

\* sep.join(parts)
RECURSIVE Join(_, _)
Join(parts, sep) ==
    IF parts = <<>> THEN ""
    ELSE IF Len(parts) = 1 THEN parts[1]
    ELSE parts[1] \o sep \o Join(Tail(parts), sep)

Truthy(text) == text # Absent /\ text # ""

(***************************************************************************)
(* Property extraction, build_tree_html lines 76-114: one step per block,  *)
(* applied in the order of the code.                                       *)
(***************************************************************************)
AddAttributes(props, node) == DictUpdate(props, node.attrib)

AddRealname(props, node) ==
    IF Truthy(node.realname)
    THEN DictSet(props, "realname", Strip(node.realname))
    ELSE props

AddSuperclasses(props, node) ==
    LET classes == SelectSeq(node.superclass.classes, LAMBDA c : c # "")
    IN  IF node.superclass.present /\ classes # <<>>
        THEN DictSet(props, "superclasses", Join(classes, " > "))
        ELSE props

GeomCoords == <<"x", "y", "width", "height">>

RECURSIVE AddCoords(_, _, _)
AddCoords(props, geom, coords) ==
    IF coords = <<>> THEN props
    ELSE LET coord == Head(coords)
             next  == IF Truthy(geom[coord])
                      THEN DictSet(props, "geometry_" \o coord, geom[coord])
                      ELSE props
         IN  AddCoords(next, geom, Tail(coords))

AddGeometry(props, node) ==
    IF node.geometry.present
    THEN AddCoords(props, node.geometry, GeomCoords)
    ELSE props

RECURSIVE AddVisualAttrs(_, _)
AddVisualAttrs(props, attrs) ==
    IF attrs = <<>> THEN props
    ELSE AddVisualAttrs(DictSet(props, "visual_" \o Head(attrs)[1], Head(attrs)[2]),
                        Tail(attrs))

AddVisual(props, node) ==
    IF node.visual.present THEN AddVisualAttrs(props, node.visual.attrib) ELSE props

\* One <property> entry: name attribute (default ""), text of its string child.
PropName(prop) == IF prop.name = Absent THEN "" ELSE prop.name

PropValue(prop) == IF prop.string = Absent THEN "" ELSE prop.string

RECURSIVE AddPropertyList(_, _)
AddPropertyList(props, entries) ==
    IF entries = <<>> THEN props
    ELSE AddPropertyList(DictSet(props, PropName(Head(entries)), PropValue(Head(entries))),
                         Tail(entries))

AddProperties(props, node) ==
    IF node.properties.present
    THEN AddPropertyList(props, node.properties.props)
    ELSE props

\* The geometry block merged before the XML attributes.
PropertiesGeometryFirst(node) ==
    AddProperties(AddVisual(AddSuperclasses(AddRealname(AddAttributes(
        AddGeometry(<<>>, node), node), node), node), node), node)

Properties(node) ==
    AddProperties(AddVisual(AddGeometry(AddSuperclasses(AddRealname(
        AddAttributes(<<>>, node), node), node), node), node), node)

(***************************************************************************)
(* build_tree_html: the shared counter cell is threaded through the        *)
(* recursion; each call returns the emitted nodes (in DOM order) and the   *)
(* counter value it leaves behind.                                         *)
(***************************************************************************)
\* counter["i"] += 1 left out
NextCounterStuck(c) == c

\* counter["i"] += 2
NextCounterSkip(c) == c + 2

NextCounter(c) == c + 1

RECURSIVE build_tree_html(_, _, _, _)
RECURSIVE build_children(_, _, _, _, _)

build_tree_html(node, path, parent, counter) ==
    LET myid == counter
        me   == [id     |-> myid,
                 label  |-> LabelOf(node.tag, node.attrib),
                 props  |-> Properties(node),
                 parent |-> parent,
                 path   |-> path]
        rest == build_children(Children(node), 1, path, myid, NextCounter(counter))
    IN  [nodes |-> <<me>> \o rest.nodes, counter |-> rest.counter]

build_children(children, i, path, parent, counter) ==
    IF i > Len(children) THEN [nodes |-> <<>>, counter |-> counter]
    ELSE LET frag == build_tree_html(children[i].node, path \o children[i].rel,
                                     parent, counter)
             rest == build_children(children, i + 1, path, parent, frag.counter)
         IN  [nodes |-> frag.nodes \o rest.nodes, counter |-> rest.counter]

(***************************************************************************)
(* generate_html lines 159-170: the render root is the first element-      *)
(* tagged descendant of the XML root (ElementTree find(".//element")), or  *)
(* the XML root itself when there is none.                                 *)
(***************************************************************************)
RECURSIVE FindElementIn(_, _)
\* path of the first element-tagged descendant among kids i.. of node, or <<>>
FindElementIn(node, i) ==
    IF i > Len(node.kids) THEN <<>>
    ELSE IF node.kids[i].tag = "element" THEN <<i>>
    ELSE LET sub == FindElementIn(node.kids[i], 1)
         IN  IF sub # <<>> THEN <<i>> \o sub ELSE FindElementIn(node, i + 1)

RECURSIVE NodeAt(_, _)
NodeAt(node, path) ==
    IF path = <<>> THEN node ELSE NodeAt(node.kids[Head(path)], Tail(path))

RootElementPath(xml_root) == FindElementIn(xml_root, 1)

\* The counter a call without a counter argument starts from.
DefaultCounterShared == IF lastCounter = 0 THEN 1 ELSE lastCounter

DefaultCounter == 1

RenderRoot(xml_root) ==
    build_tree_html(NodeAt(xml_root, RootElementPath(xml_root)),
                    RootElementPath(xml_root), 0, DefaultCounter)

(***************************************************************************)
(* tkinter viewer: populate_tree / add_tree_item.                          *)
(***************************************************************************)
TkDisplayText(node) ==
    LET class_name      == DictGetOr(node.attrib, "class", "")
        simplified_type == DictGetOr(node.attrib, "simplifiedType", "")
    IN  IF node.tag = "element"
        THEN IF simplified_type # ""
             THEN simplified_type \o " [" \o class_name \o "]"
             ELSE IF class_name # "" THEN class_name ELSE node.tag
        ELSE node.tag

RECURSIVE TkTargets(_, _)
\* the elements add_tree_item recurses into, from kid i on, in loop order
TkTargets(node, i) ==
    IF i > Len(node.kids) THEN <<>>
    ELSE (IF node.kids[i].tag = "children"
          THEN ElementKids(node.kids[i], <<i>>)
          ELSE IF node.kids[i].tag = "element"
               THEN <<[rel |-> <<i>>, node |-> node.kids[i]]>>
               ELSE <<>>)
         \o TkTargets(node, i + 1)

RECURSIVE add_tree_item(_, _, _, _)
RECURSIVE add_tree_items(_, _, _, _, _)

\* made: number of Treeview items inserted before this call
add_tree_item(parent, element, path, made) ==
    LET item_id == made + 1
        me      == [item |-> item_id, text |-> TkDisplayText(element),
                    parent |-> parent, path |-> path]
    IN  <<me>> \o add_tree_items(TkTargets(element, 1), 1, path, item_id, item_id)

add_tree_items(targets, i, path, parent, made) ==
    IF i > Len(targets) THEN <<>>
    ELSE LET sub == add_tree_item(parent, targets[i].node, path \o targets[i].rel, made)
         IN  sub \o add_tree_items(targets, i + 1, path, parent, made + Len(sub))

(***************************************************************************)
(* Documents of the tree specification: every ordered tree of at most      *)
(* MaxTreeNodes nodes over the tags below.                                 *)
(***************************************************************************)
TreeTags == {"element", "children", "ui"}

RECURSIVE Forests(_)
RECURSIVE TreesN(_)

Forests(n) ==
    IF n = 0 THEN {<<>>}
    ELSE UNION {{<<t>> \o f : t \in TreesN(k), f \in Forests(n - k)} : k \in 1..n}

TreesN(n) == {MkNode(tag, EmptyPayload, ks) : tag \in TreeTags, ks \in Forests(n - 1)}

TreeDocs == UNION {TreesN(n) : n \in 1..MaxTreeNodes}

(***************************************************************************)
(* Tree specification: a parsed document, rendered repeatedly.             *)
(***************************************************************************)
InitTree ==
    /\ doc \in TreeDocs
    /\ tree = NoTree
    /\ prevTree = NoTree
    /\ lastCounter = 0
    /\ runs = 0
    /\ tkTree = NoTree
    /\ viewer = "html"
    /\ hasScreenshot = FALSE
    /\ display = NaturalSize
    /\ currentSelectedNode = 0
    /\ screenshotGeometry = NullGeometry
    /\ overlays = <<>>
    /\ timers = 0
    /\ tkSelection = 0
    /\ tkOverlays = <<>>
    /\ simpleTree = NoTree
    /\ selectedElement = 0
    /\ simpleOverlays = <<>>
    /\ SessionIdle

\* generate_html: one build_tree_html pass over the document
Render ==
    /\ runs < MaxRuns
    /\ LET r == RenderRoot(doc)
       IN  /\ tree' = r.nodes
           /\ lastCounter' = r.counter
    /\ prevTree' = tree
    /\ runs' = runs + 1
    /\ UNCHANGED <<sessionVars, inputVars, tkTree, display, htmlVars, tkVars, simpleVars>>

\* tkinter populate_tree: the Treeview is emptied and rebuilt from the XML root
PopulateTree ==
    /\ tkTree' = add_tree_item(0, doc, <<>>, 0)
    /\ tkTree' # tkTree
    /\ UNCHANGED <<sessionVars, inputVars, treeVars, display, htmlVars, tkVars, simpleVars>>

NextTree == Render \/ PopulateTree

SpecTree == InitTree /\ [][NextTree]_vars

(***************************************************************************)
(* Document order on element paths: a node precedes its descendants and    *)
(* everything under its later siblings.                                    *)
(***************************************************************************)
RECURSIVE PathBefore(_, _)
PathBefore(p, q) ==
    /\ q # <<>>
    /\ \/ p = <<>>
       \/ Head(p) < Head(q)
       \/ Head(p) = Head(q) /\ PathBefore(Tail(p), Tail(q))

\* C1: the data-id values of one render pass are pairwise distinct and grow
\* strictly with the document (pre-order) position of the rendered element.
C1_IdsUniqueIncreasing ==
    \A i, j \in DOMAIN tree :
        /\ (i # j => tree[i].id # tree[j].id)
        /\ (PathBefore(tree[i].path, tree[j].path) => tree[i].id < tree[j].id)

\* a pass that rendered a grandchild before a later child of the root
C1_Witness ==
    \E i, j \in DOMAIN tree :
        /\ tree[j].parent = tree[1].id
        /\ tree[i].parent \notin {0, tree[1].id}
        /\ PathBefore(tree[i].path, tree[j].path)
        /\ tree[i].id < tree[j].id

ElementIndices(node) == {j \in 1..Len(node.kids) : node.kids[j].tag = "element"}

ExpectedChildPaths(path) ==
    LET e == NodeAt(doc, path)
    IN  IF \E w \in 1..Len(e.kids) : e.kids[w].tag = "children"
        THEN LET w == CHOOSE w \in 1..Len(e.kids) :
                          /\ e.kids[w].tag = "children"
                          /\ \A v \in 1..Len(e.kids) : e.kids[v].tag = "children" => w <= v
             IN  {path \o <<w, j>> : j \in ElementIndices(e.kids[w])}
        ELSE {path \o <<j>> : j \in ElementIndices(e)}

\* build_tree_html: each node renders the wrapped children or the direct ones
HtmlChildrenOneSource ==
    /\ \A i \in DOMAIN tree :
           {tree[j].path : j \in {j \in DOMAIN tree : tree[j].parent = tree[i].id}}
               = ExpectedChildPaths(tree[i].path)
    /\ \A i, j \in DOMAIN tree : i # j => tree[i].path # tree[j].path

\* add_tree_item: the same statement about the tkinter Treeview
TkChildrenOneSource ==
    /\ \A i \in DOMAIN tkTree :
           {tkTree[j].path : j \in {j \in DOMAIN tkTree : tkTree[j].parent = tkTree[i].item}}
               = ExpectedChildPaths(tkTree[i].path)
    /\ \A i, j \in DOMAIN tkTree : i # j => tkTree[i].path # tkTree[j].path

C5_HtmlWitness ==
    \E i \in DOMAIN tree :
        LET e == NodeAt(doc, tree[i].path)
        IN  /\ HasChildrenElem(e)
            /\ ElementIndices(e) # {}
            /\ ElementIndices(e.kids[FirstChildrenElem(e)]) # {}

(***************************************************************************)
(* Documents of the property specification: one element (rendered as the   *)
(* root, generate_html line 169) whose attributes and property-carrying    *)
(* children range over the vocabularies below.                             *)
(***************************************************************************)
\* <<name, value>> if the attribute is there, nothing otherwise
Attr(name, value) == IF value = Absent THEN <<>> ELSE <<<<name, value>>>>

LabelAttribs ==
    {Attr("simplifiedType", st) \o Attr("objectName", on) \o Attr("class", cl) :
        st \in {Absent, "", "Button"},
        on \in {Absent, "", "okBtn"},
        cl \in {Absent, "", "QPushButton"}}

MergeAttribs ==
    {Attr("class", "QLabel") \o Attr("geometry_x", gx) \o Attr("realname", rn)
        \o Attr("superclasses", sc) \o Attr("visual_enabled", ve) :
        gx \in {Absent, "1"}, rn \in {Absent, "byAttr"},
        sc \in {Absent, "byAttr"}, ve \in {Absent, "byAttr"}}

RealnameTexts == {Absent, "", " rn "}

SuperclassBlocks ==
    {[present |-> FALSE, classes |-> <<>>],
     [present |-> TRUE, classes |-> <<>>],
     [present |-> TRUE, classes |-> <<"", "">>],
     [present |-> TRUE, classes |-> <<"QWidget", "", "QObject">>]}

GeometryBlocks ==
    {NoGeometry,
     [present |-> TRUE, x |-> "2", y |-> Absent, width |-> "", height |-> Absent],
     [present |-> TRUE, x |-> "", y |-> "3", width |-> "50", height |-> "20"],
     [present |-> TRUE, x |-> "2", y |-> "3", width |-> "50", height |-> "20"]}

VisualBlocks ==
    {[present |-> FALSE, attrib |-> <<>>],
     [present |-> TRUE, attrib |-> <<<<"enabled", "true">>, <<"visible", "">>>>]}

PropertyBlocks ==
    {[present |-> FALSE, props |-> <<>>],
     [present |-> TRUE, props |-> <<>>],
     [present |-> TRUE, props |-> <<[name |-> "text", string |-> "OK"],
                                    [name |-> "toolTip", string |-> Absent],
                                    [name |-> "text", string |-> ""]>>],
     [present |-> TRUE, props |-> <<[name |-> "geometry_x", string |-> "9"],
                                    [name |-> Absent, string |-> "anon"]>>],
     [present |-> TRUE, props |-> <<[name |-> "visual_enabled", string |-> "byProp"],
                                    [name |-> "realname", string |-> "byProp"],
                                    [name |-> "superclasses", string |-> Absent]>>]}

PropTags == {"element", "object"}

LabelDocs ==
    {MkNode(tag, [EmptyPayload EXCEPT !.attrib = a], <<>>) :
        tag \in PropTags, a \in LabelAttribs}

MergeDocs ==
    {MkNode("element",
            [attrib |-> a, realname |-> rn, superclass |-> sc, geometry |-> g,
             visual |-> v, properties |-> pr], <<>>) :
        a \in MergeAttribs, rn \in RealnameTexts, sc \in SuperclassBlocks,
        g \in GeometryBlocks, v \in VisualBlocks, pr \in PropertyBlocks}

InitProps ==
    /\ doc \in LabelDocs \cup MergeDocs
    /\ tree = NoTree
    /\ prevTree = NoTree
    /\ lastCounter = 0
    /\ runs = 0
    /\ tkTree = NoTree
    /\ viewer = "html"
    /\ hasScreenshot = FALSE
    /\ display = NaturalSize
    /\ currentSelectedNode = 0
    /\ screenshotGeometry = NullGeometry
    /\ overlays = <<>>
    /\ timers = 0
    /\ tkSelection = 0
    /\ tkOverlays = <<>>
    /\ simpleTree = NoTree
    /\ selectedElement = 0
    /\ simpleOverlays = <<>>
    /\ SessionIdle

SpecProps == InitProps /\ [][NextTree]_vars

(***************************************************************************)
(* The flattened property map, stated source by source: the value of a key *)
(* is that of the last merge step that supplies the key.                   *)
(***************************************************************************)
NonEmptyClasses(e) == SelectSeq(e.superclass.classes, LAMBDA c : c # "")

\* keys supplied by merge step r (1 attributes .. 6 properties list)
StepKeys(e, r) ==
    CASE r = 1 -> {e.attrib[i][1] : i \in DOMAIN e.attrib}
      [] r = 2 -> IF Truthy(e.realname) THEN {"realname"} ELSE {}
      [] r = 3 -> IF e.superclass.present /\ NonEmptyClasses(e) # <<>>
                  THEN {"superclasses"} ELSE {}
      [] r = 4 -> IF e.geometry.present
                  THEN {"geometry_" \o c : c \in {c \in {"x", "y", "width", "height"} :
                                                     Truthy(e.geometry[c])}}
                  ELSE {}
      [] r = 5 -> IF e.visual.present
                  THEN {"visual_" \o e.visual.attrib[i][1] : i \in DOMAIN e.visual.attrib}
                  ELSE {}
      [] r = 6 -> IF e.properties.present
                  THEN {PropName(e.properties.props[i]) : i \in DOMAIN e.properties.props}
                  ELSE {}

\* value merge step r gives key k (k \in StepKeys(e, r))
StepValue(e, r, k) ==
    CASE r = 1 -> e.attrib[CHOOSE i \in DOMAIN e.attrib : e.attrib[i][1] = k][2]
      [] r = 2 -> Strip(e.realname)
      [] r = 3 -> Join(NonEmptyClasses(e), " > ")
      [] r = 4 -> e.geometry[CHOOSE c \in {"x", "y", "width", "height"} :
                                 "geometry_" \o c = k]
      [] r = 5 -> e.visual.attrib[CHOOSE i \in DOMAIN e.visual.attrib :
                                      "visual_" \o e.visual.attrib[i][1] = k][2]
      [] r = 6 -> LET ps   == e.properties.props
                      last == CHOOSE i \in DOMAIN ps :
                                  /\ PropName(ps[i]) = k
                                  /\ \A j \in DOMAIN ps : PropName(ps[j]) = k => j <= i
                  IN  PropValue(ps[last])

MergeSteps == 1..6

LastStep(e, k) ==
    CHOOSE r \in MergeSteps :
        k \in StepKeys(e, r) /\ \A q \in MergeSteps : k \in StepKeys(e, q) => q <= r

FirstStep(e, k) ==
    CHOOSE r \in MergeSteps :
        k \in StepKeys(e, r) /\ \A q \in MergeSteps : k \in StepKeys(e, q) => r <= q

KeyIndex(d, k) == CHOOSE i \in DOMAIN d : d[i][1] = k

\* C3: the property map holds exactly the keys of the six sources; each key
\* has the value of the last merge step supplying it (attributes, realname,
\* superclasses, geometry, visual, properties list) and keys appear in the
\* order of the first step that supplies them.
C3_MergeOrderLastWins ==
    \A n \in DOMAIN tree :
        LET e == NodeAt(doc, tree[n].path)
            d == tree[n].props
        IN  /\ DictKeys(d) = UNION {StepKeys(e, r) : r \in MergeSteps}
            /\ \A i, j \in DOMAIN d : i # j => d[i][1] # d[j][1]
            /\ \A k \in DictKeys(d) : DictGet(d, k) = StepValue(e, LastStep(e, k), k)
            /\ \A k1, k2 \in DictKeys(d) :
                   FirstStep(e, k1) < FirstStep(e, k2) => KeyIndex(d, k1) < KeyIndex(d, k2)

\* attribute geometry_x="1" plus abstractProperties/geometry/x "2" rendered
\* as properties["geometry_x"] = "2"
C3_Witness ==
    /\ tree # NoTree
    /\ LET e == NodeAt(doc, tree[1].path)
       IN  /\ DictHas(e.attrib, "geometry_x") /\ DictGet(e.attrib, "geometry_x") = "1"
           /\ e.geometry.present /\ e.geometry.x = "2"
           /\ ~ e.properties.present
           /\ DictGet(tree[1].props, "geometry_x") = "2"

(***************************************************************************)
(* The label rule as the specification words it, an attribute counting as  *)
(* present when it carries a non-empty value.                              *)
(***************************************************************************)
Given(attrib, name) == DictHas(attrib, name) /\ DictGet(attrib, name) # ""

ClaimedLabel(e) ==
    IF Given(e.attrib, "simplifiedType")
    THEN DictGet(e.attrib, "simplifiedType")
         \o (IF Given(e.attrib, "objectName")
             THEN " (" \o DictGet(e.attrib, "objectName") \o ")" ELSE "")
    ELSE e.tag
         \o (IF Given(e.attrib, "objectName")
             THEN " (" \o DictGet(e.attrib, "objectName") \o ")"
             ELSE IF Given(e.attrib, "class")
                  THEN " (" \o DictGet(e.attrib, "class") \o ")" ELSE "")

\* build_tree_html follows the rule
HtmlLabelFirstMatch ==
    \A n \in DOMAIN tree : tree[n].label = ClaimedLabel(NodeAt(doc, tree[n].path))

\* add_tree_item would have to follow it too
TkLabelFirstMatch ==
    \A n \in DOMAIN tkTree : tkTree[n].text = ClaimedLabel(NodeAt(doc, tkTree[n].path))

\* C4: in every viewer the node label is simplifiedType (plus " (objectName)")
\* when simplifiedType is given, else the tag name plus " (objectName)", else
\* plus " (class)", else the bare tag name.
C4_LabelFirstMatch == HtmlLabelFirstMatch /\ TkLabelFirstMatch

(***************************************************************************)
(* Numbers.  A JavaScript number is NaN or a rational num/den (den > 0);   *)
(* the texts below are the geometry vocabulary of the model.               *)
(***************************************************************************)
NaN == [nan |-> TRUE, num |-> 0, den |-> 1]

Num(n) == [nan |-> FALSE, num |-> n, den |-> 1]

DecimalTexts ==
    {<<"0", 0>>, <<"2", 2>>, <<"5", 5>>, <<"7", 7>>, <<"20", 20>>, <<"50", 50>>,
     <<"100", 100>>, <<"110", 110>>, <<"200", 200>>, <<"210", 210>>,
     <<"300", 300>>, <<"400", 400>>}

IsDecimal(text) == \E p \in DecimalTexts : p[1] = text

DecimalValue(text) == (CHOOSE p \in DecimalTexts : p[1] = text)[2]

\* JavaScript parseInt: leading/trailing blanks and a trailing non-digit
\* suffix are ignored, anything without leading digits is NaN
ParseInt(text) ==
    IF IsDecimal(text) THEN Num(DecimalValue(text))
    ELSE IF IsDecimal(Strip(text)) THEN Num(DecimalValue(Strip(text)))
    ELSE IF text = "12px" THEN Num(12)
    ELSE NaN

\* parseInt(...) || 0
OrZero(n) == IF n.nan THEN 0 ELSE n.num

\* a - b for a JavaScript number a and an integer b
Minus(a, b) == IF a.nan THEN NaN ELSE [a EXCEPT !.num = a.num - b * a.den]

\* a * (shown / natural)
Times(a, shown, natural) ==
    IF a.nan THEN NaN ELSE [a EXCEPT !.num = a.num * shown, !.den = a.den * natural]

SameNumber(a, b) ==
    \/ a.nan /\ b.nan
    \/ ~a.nan /\ ~b.nan /\ a.num * b.den = b.num * a.den

(***************************************************************************)
(* HTML page, squish_xml_viewer.py lines 456-548.                          *)
(***************************************************************************)
\* texts that end the string literal they sit in once data-props has been
\* entity-decoded twice (attribute parsing, then textarea.innerHTML)
BreakingTexts == {"&#39;"}

\* eval("(" + decodedStr + ")") returns the property object
EvalOk(props) ==
    \A i \in DOMAIN props : props[i][1] \notin BreakingTexts /\ props[i][2] \notin BreakingTexts

\* propsObj[key]
PropOf(props, key) == DictGetOr(props, key, Undefined)

GeometryKeys == {"geometry_x", "geometry_y", "geometry_width", "geometry_height"}

HasAllGeometry(props) == \A k \in GeometryKeys : PropOf(props, k) # Undefined

\* the existing overlay is left in the container
RemoveExistingKept(ovs) == ovs

\* getElementById('elementOverlay') and remove()
RemoveExisting(ovs) == IF ovs # <<>> THEN Tail(ovs) ELSE ovs

\* lines 480-502: the first .node whose properties evaluate and have geometry_x
OriginNodes(nodes) ==
    {i \in DOMAIN nodes : EvalOk(nodes[i].props) /\ PropOf(nodes[i].props, "geometry_x") # Undefined}

ResolveOrigin(nodes, current) ==
    IF current.set THEN current
    ELSE IF OriginNodes(nodes) # {}
    THEN LET i == CHOOSE i \in OriginNodes(nodes) : \A j \in OriginNodes(nodes) : i <= j
         IN  [set |-> TRUE,
              x |-> OrZero(ParseInt(PropOf(nodes[i].props, "geometry_x"))),
              y |-> OrZero(ParseInt(PropOf(nodes[i].props, "geometry_y")))]
    ELSE [set |-> TRUE, x |-> 0, y |-> 0]

\* drawElementOverlay lines 528-545: the overlay element's style
Scaled(x, y, width, height, shown) ==
    [left   |-> Times(x, shown[1], NaturalSize[1]),
     top    |-> Times(y, shown[2], NaturalSize[2]),
     width  |-> Times(width, shown[1], NaturalSize[1]),
     height |-> Times(height, shown[2], NaturalSize[2])]

drawElementOverlay(ovs, x, y, width, height, shown, hasImg) ==
    IF ~hasImg THEN ovs
    ELSE Append(ovs, Scaled(x, y, width, height, shown))

\* updateElementOverlay: the overlays and the origin it leaves behind
updateElementOverlay(nodes, sel, origin, ovs, shown, hasImg) ==
    LET cleared == RemoveExisting(ovs)
        idle    == [overlays |-> cleared, origin |-> origin]
    IN  IF sel = 0 THEN idle
        ELSE LET props == nodes[sel].props
             IN  IF ~EvalOk(props) THEN idle
                 ELSE IF HasAllGeometry(props)
                 THEN LET sg == ResolveOrigin(nodes, origin)
                      IN  [overlays |->
                               drawElementOverlay(cleared,
                                   Minus(ParseInt(PropOf(props, "geometry_x")), sg.x),
                                   Minus(ParseInt(PropOf(props, "geometry_y")), sg.y),
                                   ParseInt(PropOf(props, "geometry_width")),
                                   ParseInt(PropOf(props, "geometry_height")),
                                   shown, hasImg),
                           origin |-> sg]
                 ELSE idle

(***************************************************************************)
(* tkinter viewer, squish_xml_tkinter_desktop.py lines 435-611.            *)
(***************************************************************************)
\* Python int(text): surrounding blanks allowed, anything else ValueError
PyIntOk(text) == IsDecimal(Strip(text))

PyInt(text) == DecimalValue(Strip(text))

\* image_scale_factor as <<numerator, denominator>>, lines 454-465
ImageScaleFactor ==
    IF NaturalSize[1] > 600 \/ NaturalSize[2] > 400
    THEN IF 600 * NaturalSize[2] <= 400 * NaturalSize[1]
         THEN <<600, NaturalSize[1]>> ELSE <<400, NaturalSize[2]>>
    ELSE <<1, 1>>

RECURSIVE IterNodes(_, _)
RECURSIVE IterKids(_, _, _)
\* xml_data.iter(): every node with its path, in document order
IterNodes(node, path) == <<[path |-> path, node |-> node]>> \o IterKids(node, path, 1)

IterKids(node, path, i) ==
    IF i > Len(node.kids) THEN <<>>
    ELSE IterNodes(node.kids[i], Append(path, i)) \o IterKids(node, path, i + 1)

\* create_element_overlay: the rectangle (canvas coordinates) or nothing
create_element_overlay(geometry, path) ==
    IF /\ \A c \in {"x", "y", "width", "height"} : Truthy(geometry[c])
       /\ \A c \in {"x", "y", "width", "height"} : PyIntOk(geometry[c])
       /\ PyInt(geometry.width) * ImageScaleFactor[1] > 2 * ImageScaleFactor[2]
       /\ PyInt(geometry.height) * ImageScaleFactor[1] > 2 * ImageScaleFactor[2]
    THEN <<[path   |-> path,
            left   |-> [nan |-> FALSE, den |-> ImageScaleFactor[2],
                        num |-> PyInt(geometry.x) * ImageScaleFactor[1]
                                + 10 * ImageScaleFactor[2]],
            top    |-> [nan |-> FALSE, den |-> ImageScaleFactor[2],
                        num |-> PyInt(geometry.y) * ImageScaleFactor[1]
                                + 10 * ImageScaleFactor[2]],
            width  |-> [nan |-> FALSE, den |-> ImageScaleFactor[2],
                        num |-> PyInt(geometry.width) * ImageScaleFactor[1]],
            height |-> [nan |-> FALSE, den |-> ImageScaleFactor[2],
                        num |-> PyInt(geometry.height) * ImageScaleFactor[1]]]>>
    ELSE <<>>

RECURSIVE show_element_overlays(_)
\* one rectangle per element with a geometry block, whatever is selected
show_element_overlays(elems) ==
    IF elems = <<>> THEN <<>>
    ELSE (IF Head(elems).node.tag = "element" /\ Head(elems).node.geometry.present
          THEN create_element_overlay(Head(elems).node.geometry, Head(elems).path)
          ELSE <<>>)
         \o show_element_overlays(Tail(elems))

(***************************************************************************)
(* Simple desktop page, squish_xml_viewer_desktop_simple.py.               *)
(***************************************************************************)
\* build_object_tree_html lines 100-108: geometry from the XML attributes
SimpleItem(e) ==
    [path   |-> e.path,
     x      |-> DictGetOr(e.node.attrib, "x", "0"),
     y      |-> DictGetOr(e.node.attrib, "y", "0"),
     width  |-> DictGetOr(e.node.attrib, "width", "0"),
     height |-> DictGetOr(e.node.attrib, "height", "0")]

build_object_tree_html(root) ==
    LET all == IterNodes(root, <<>>)
    IN  [i \in 1..Len(all) |-> SimpleItem(all[i])]

\* the onclick attribute runs only if each argument is a numeric literal
OnclickRuns(item) ==
    \A c \in {"x", "y", "width", "height"} : IsDecimal(Strip(item[c]))

\* updateElementOverlay(x, y, width, height) of the simple page, lines 533-554
simpleUpdateElementOverlay(ovs, x, y, width, height, hasImg) ==
    LET cleared == IF ovs # <<>> THEN Tail(ovs) ELSE ovs
    IN  IF x >= 0 /\ y >= 0 /\ width > 0 /\ height > 0 /\ hasImg
        THEN Append(cleared, [left |-> Num(x), top |-> Num(y),
                              width |-> Num(width), height |-> Num(height)])
        ELSE cleared

(***************************************************************************)
(* Documents of the overlay specification: <ui> holding a window element   *)
(* with up to MaxOverlayNodes - 1 child elements; every element carries    *)
(* one of the payloads below.                                              *)
(***************************************************************************)
Geometry(x, y, width, height) ==
    [present |-> TRUE, x |-> x, y |-> y, width |-> width, height |-> height]

OverlayPayloads ==
    {EmptyPayload,
     [EmptyPayload EXCEPT !.geometry = Geometry("100", "200", "400", "300")],
     [EmptyPayload EXCEPT !.geometry = Geometry("110", "210", "50", "20")],
     [EmptyPayload EXCEPT !.geometry = Geometry("110", "210", "abc", "20")],
     [EmptyPayload EXCEPT !.geometry = Geometry(Absent, "210", "50", "20")],
     [EmptyPayload EXCEPT !.geometry = Geometry("110", "210", "", "20"),
                          !.properties = [present |-> TRUE,
                                          props |-> <<[name |-> "geometry_width",
                                                       string |-> Absent]>>]],
     [EmptyPayload EXCEPT !.geometry = Geometry("110", "210", "50", "20"),
                          !.attrib = Attr("text", "&#39;")],
     [EmptyPayload EXCEPT !.attrib = Attr("x", "110") \o Attr("y", "210")
                                     \o Attr("width", "50") \o Attr("height", "20")],
     [EmptyPayload EXCEPT !.attrib = Attr("y", "210") \o Attr("width", "50")
                                     \o Attr("height", "20")],
     [EmptyPayload EXCEPT !.attrib = Attr("x", "") \o Attr("y", "210")
                                     \o Attr("width", "50") \o Attr("height", "20")]}

RECURSIVE Leaves(_)
\* sequences of n childless elements
Leaves(n) ==
    IF n = 0 THEN {<<>>}
    ELSE {<<MkNode("element", p, <<>>)>> \o rest : p \in OverlayPayloads, rest \in Leaves(n - 1)}

OverlayDocs ==
    {MkNode("ui", EmptyPayload, <<MkNode("element", p, ks)>>) :
        p \in OverlayPayloads, ks \in UNION {Leaves(n) : n \in 0..(MaxOverlayNodes - 1)}}

\* sizes the browser shows the screenshot at
Displays == {NaturalSize, <<800, 600>>, <<200, 300>>}

Viewers == {"html", "tk", "simple"}

InitOverlay ==
    /\ doc \in OverlayDocs
    /\ viewer \in Viewers
    /\ hasScreenshot \in BOOLEAN
    /\ tree = NoTree
    /\ prevTree = NoTree
    /\ lastCounter = 0
    /\ runs = 0
    /\ tkTree = NoTree
    /\ display = NaturalSize
    /\ currentSelectedNode = 0
    /\ screenshotGeometry = NullGeometry
    /\ overlays = <<>>
    /\ timers = 0
    /\ tkSelection = 0
    /\ tkOverlays = <<>>
    /\ simpleTree = NoTree
    /\ selectedElement = 0
    /\ simpleOverlays = <<>>
    /\ SessionIdle

\* generate_html and the browser loading the page: script state starts over
OpenPage ==
    /\ viewer = "html"
    /\ LET r == RenderRoot(doc)
       IN  /\ tree' = r.nodes
           /\ lastCounter' = r.counter
    /\ currentSelectedNode' = 0
    /\ screenshotGeometry' = NullGeometry
    /\ overlays' = <<>>
    /\ timers' = 0
    /\ display' = NaturalSize
    /\ UNCHANGED <<sessionVars, inputVars, prevTree, runs, tkTree, tkVars, simpleVars>>

\* click handler, lines 607-618
Click(n) ==
    /\ viewer = "html"
    /\ n \in DOMAIN tree
    /\ currentSelectedNode' = n
    /\ LET r == updateElementOverlay(tree, n, screenshotGeometry, overlays,
                                     display, hasScreenshot)
       IN  /\ overlays' = r.overlays
           /\ screenshotGeometry' = r.origin
    /\ UNCHANGED <<sessionVars, inputVars, treeVars, tkTree, display, timers, tkVars, simpleVars>>

\* refreshProperties, lines 447-454 (the sort order select)
RefreshProperties ==
    /\ viewer = "html"
    /\ currentSelectedNode # 0
    /\ LET r == updateElementOverlay(tree, currentSelectedNode, screenshotGeometry,
                                     overlays, display, hasScreenshot)
       IN  /\ overlays' = r.overlays
           /\ screenshotGeometry' = r.origin
    /\ UNCHANGED <<sessionVars, inputVars, treeVars, tkTree, display, currentSelectedNode, timers,
                   tkVars, simpleVars>>

\* resize handler, lines 686-688: the image is laid out anew, a timer is armed
Resize(shown) ==
    /\ viewer = "html"
    /\ tree # NoTree
    /\ timers < MaxTimers
    /\ display' = shown
    /\ timers' = timers + 1
    /\ UNCHANGED <<sessionVars, inputVars, treeVars, tkTree, currentSelectedNode, screenshotGeometry,
                   overlays, tkVars, simpleVars>>

\* setTimeout(updateElementOverlay, 100) expires
ResizeTimer ==
    /\ viewer = "html"
    /\ timers > 0
    /\ timers' = timers - 1
    /\ LET r == updateElementOverlay(tree, currentSelectedNode, screenshotGeometry,
                                     overlays, display, hasScreenshot)
       IN  /\ overlays' = r.overlays
           /\ screenshotGeometry' = r.origin
    /\ UNCHANGED <<sessionVars, inputVars, treeVars, tkTree, display, currentSelectedNode,
                   tkVars, simpleVars>>

\* tkinter load_xml_file: populate_tree, then load_screenshot
TkLoad ==
    /\ viewer = "tk"
    /\ tkTree' = add_tree_item(0, doc, <<>>, 0)
    /\ tkSelection' = 0
    /\ tkOverlays' = IF hasScreenshot THEN show_element_overlays(IterNodes(doc, <<>>))
                     ELSE <<>>
    /\ UNCHANGED <<sessionVars, inputVars, treeVars, display, htmlVars, simpleVars>>

\* tkinter on_tree_select, lines 658-670: only the property pane changes
TkSelect(i) ==
    /\ viewer = "tk"
    /\ i \in DOMAIN tkTree
    /\ tkSelection' = i
    /\ UNCHANGED <<sessionVars, inputVars, treeVars, tkTree, display, htmlVars, tkOverlays, simpleVars>>

\* simple desktop viewer load_xml_file and the page it shows
SimpleLoad ==
    /\ viewer = "simple"
    /\ simpleTree' = build_object_tree_html(doc)
    /\ selectedElement' = 0
    /\ simpleOverlays' = <<>>
    /\ UNCHANGED <<sessionVars, inputVars, treeVars, tkTree, display, htmlVars, tkVars>>

\* a click on a tree node of the simple page: its onclick attribute
SimpleClick(i) ==
    /\ viewer = "simple"
    /\ i \in DOMAIN simpleTree
    /\ IF OnclickRuns(simpleTree[i])
       THEN /\ selectedElement' = i
            /\ simpleOverlays' =
                   simpleUpdateElementOverlay(simpleOverlays,
                       DecimalValue(Strip(simpleTree[i].x)),
                       DecimalValue(Strip(simpleTree[i].y)),
                       DecimalValue(Strip(simpleTree[i].width)),
                       DecimalValue(Strip(simpleTree[i].height)),
                       hasScreenshot)
       ELSE UNCHANGED <<selectedElement, simpleOverlays>>
    /\ UNCHANGED <<sessionVars, inputVars, treeVars, tkTree, display, htmlVars, tkVars, simpleTree>>

NextOverlay ==
    \/ OpenPage
    \/ \E n \in 1..MaxOverlayNodes : Click(n)
    \/ RefreshProperties
    \/ \E shown \in Displays : Resize(shown)
    \/ ResizeTimer
    \/ TkLoad
    \/ \E i \in 1..(MaxOverlayNodes + 1) : TkSelect(i)
    \/ SimpleLoad
    \/ \E i \in 1..(MaxOverlayNodes + 1) : SimpleClick(i)

SpecOverlay == InitOverlay /\ [][NextOverlay]_vars

(***************************************************************************)
(* Overlay properties.                                                     *)
(***************************************************************************)
\* property map of the node selected in the HTML page
SelectedProps == tree[currentSelectedNode].props

\* the XML node behind a tkinter tree item / a row of the simple page
TkSelectedNode == NodeAt(doc, tkTree[tkSelection].path)

SimpleSelectedNode == NodeAt(doc, simpleTree[selectedElement].path)

HtmlNoGeometryNoOverlay ==
    (viewer = "html" /\ currentSelectedNode # 0 /\ ~HasAllGeometry(SelectedProps))
        => overlays = <<>>

TkNoGeometryNoOverlay ==
    (viewer = "tk" /\ tkSelection # 0 /\ ~HasAllGeometry(Properties(TkSelectedNode)))
        => tkOverlays = <<>>

SimpleNoGeometryNoOverlay ==
    (/\ viewer = "simple"
     /\ selectedElement # 0
     /\ \E k \in {"x", "y", "width", "height"} : ~DictHas(SimpleSelectedNode.attrib, k))
        => simpleOverlays = <<>>

\* C6: once a node is selected whose property map lacks any one of
\* geometry_x, geometry_y, geometry_width, geometry_height, no overlay at all
\* is left on the screenshot, in the HTML page, the simple desktop page (whose
\* geometry properties are x, y, width, height) and the tkinter viewer.
C6_NoGeometryNoOverlay ==
    HtmlNoGeometryNoOverlay /\ TkNoGeometryNoOverlay /\ SimpleNoGeometryNoOverlay

ParsesAsInteger(text) == ~ParseInt(text).nan

\* C7: an overlay is on the screenshot for the selected node only if all four
\* geometry properties parse as integers; a property that is present but empty
\* or non-numeric means no overlay.
C7_OverlayOnlyIfIntegers ==
    (viewer = "html" /\ currentSelectedNode # 0 /\ overlays # <<>>)
        => \A k \in GeometryKeys : ParsesAsInteger(PropOf(SelectedProps, k))

Ratio(n, d) == [nan |-> FALSE, num |-> n, den |-> d]

\* (gx - ox, gy - oy, w, h) scaled per axis by shown / natural
ClaimedRect(gx, gy, w, h, ox, oy, shown, natural) ==
    [left   |-> Ratio((gx - ox) * shown[1], natural[1]),
     top    |-> Ratio((gy - oy) * shown[2], natural[2]),
     width  |-> Ratio(w * shown[1], natural[1]),
     height |-> Ratio(h * shown[2], natural[2])]

SameRect(a, b) ==
    \A side \in {"left", "top", "width", "height"} : SameNumber(a[side], b[side])

IntOf(props, key) == ParseInt(PropOf(props, key)).num

HtmlOverlayRect ==
    (/\ viewer = "html"
     /\ currentSelectedNode # 0
     /\ overlays # <<>>
     /\ timers = 0
     /\ \A k \in GeometryKeys : ParsesAsInteger(PropOf(SelectedProps, k)))
        => SameRect(overlays[1],
                    ClaimedRect(IntOf(SelectedProps, "geometry_x"),
                                IntOf(SelectedProps, "geometry_y"),
                                IntOf(SelectedProps, "geometry_width"),
                                IntOf(SelectedProps, "geometry_height"),
                                screenshotGeometry.x, screenshotGeometry.y,
                                display, NaturalSize))

\* the first element of the document, in document order, with a geometry block
\* giving x and y: the reference origin of the tkinter window's screenshot
TkOriginNodes ==
    LET all == IterNodes(doc, <<>>)
    IN  {i \in DOMAIN all : /\ all[i].node.tag = "element"
                            /\ PyIntOk(all[i].node.geometry.x)
                            /\ PyIntOk(all[i].node.geometry.y)}

TkOrigin ==
    LET all == IterNodes(doc, <<>>)
    IN  IF TkOriginNodes = {} THEN <<0, 0>>
        ELSE LET i == CHOOSE i \in TkOriginNodes : \A j \in TkOriginNodes : i <= j
             IN  <<PyInt(all[i].node.geometry.x), PyInt(all[i].node.geometry.y)>>

\* the rectangle relative to the image, which sits at canvas (10, 10)
TkOverlayRect ==
    viewer = "tk" =>
        \A i \in DOMAIN tkOverlays :
            LET g == NodeAt(doc, tkOverlays[i].path).geometry
                r == tkOverlays[i]
            IN  SameRect([left   |-> Minus(r.left, 10), top |-> Minus(r.top, 10),
                          width  |-> r.width, height |-> r.height],
                         ClaimedRect(PyInt(g.x), PyInt(g.y), PyInt(g.width), PyInt(g.height),
                                     TkOrigin[1], TkOrigin[2],
                                     <<ImageScaleFactor[1], ImageScaleFactor[1]>>,
                                     <<ImageScaleFactor[2], ImageScaleFactor[2]>>))

GeometryNodes == {i \in DOMAIN tree : PropOf(tree[i].props, "geometry_x") # Undefined}

ClaimedOrigin ==
    IF GeometryNodes = {} THEN [set |-> TRUE, x |-> 0, y |-> 0]
    ELSE LET i == CHOOSE i \in GeometryNodes : \A j \in GeometryNodes : i <= j
         IN  [set |-> TRUE,
              x |-> OrZero(ParseInt(PropOf(tree[i].props, "geometry_x"))),
              y |-> OrZero(ParseInt(PropOf(tree[i].props, "geometry_y")))]

\* C9: once resolved, the reference origin is the (geometry_x, geometry_y) of
\* the first node of the rendered tree, in document order, that has geometry
\* properties, and (0,0) only if no node has them.
C9_OriginFirstGeometryNode ==
    (viewer = "html" /\ screenshotGeometry.set) => screenshotGeometry = ClaimedOrigin

\* the origin, once resolved, is the same for every later selection in the page
OriginStable ==
    [][(screenshotGeometry.set /\ ~OpenPage) => screenshotGeometry' = screenshotGeometry]_vars

\* the overlay of the selected node at the size the screenshot is shown at
CurrentOverlay(shown) ==
    Scaled(Minus(ParseInt(PropOf(SelectedProps, "geometry_x")), screenshotGeometry.x),
           Minus(ParseInt(PropOf(SelectedProps, "geometry_y")), screenshotGeometry.y),
           ParseInt(PropOf(SelectedProps, "geometry_width")),
           ParseInt(PropOf(SelectedProps, "geometry_height")),
           shown)

Drawable ==
    /\ currentSelectedNode # 0
    /\ EvalOk(SelectedProps)
    /\ HasAllGeometry(SelectedProps)
    /\ hasScreenshot

\* C10: after any sequence of clicks and resizes in the HTML page at most one
\* overlay exists, and it is the overlay of the currently selected node: it is
\* there exactly when that node can be drawn, and once no resize timer is
\* pending it is scaled to the size the screenshot is shown at now.
C10_SingleCurrentOverlay ==
    viewer = "html" =>
        /\ Len(overlays) <= 1
        /\ overlays # <<>> <=> Drawable
        /\ overlays # <<>> =>
               \E shown \in (IF timers = 0 THEN {display} ELSE Displays) :
                   overlays[1] = CurrentOverlay(shown)

\* a second node is selected and its overlay has followed a resize to 2x
C10_Witness ==
    /\ viewer = "html"
    /\ currentSelectedNode = 2
    /\ timers = 0
    /\ display = <<800, 600>>
    /\ Len(overlays) = 1
    /\ SameRect(overlays[1], ClaimedRect(110, 210, 50, 20, 100, 200, <<2, 2>>, <<1, 1>>))

(***************************************************************************)
(* Screenshot lookup: squish_xml_viewer.py lines 45-50 and 147-157, and    *)
(* squish_xml_hybrid_viewer.py generate_screenshot_html.                   *)
(***************************************************************************)
MaxImageNodes == 4    \* XML nodes per document in the screenshot specification

\* element.text of a node (Absent for None)
TextOf(node) == IF "text" \in DOMAIN node THEN node.text ELSE Absent

MkImage(type, text) ==
    [tag |-> "image", kids |-> <<>>, text |-> text]
        @@ [EmptyPayload EXCEPT !.attrib = Attr("type", type)]

RECURSIVE FindImageIn(_, _)
\* element.find('.//image[@type="PNG"]'): path of the first descendant, among
\* kids i.. of node, tagged image with type="PNG"; <<>> when there is none
FindImageIn(node, i) ==
    IF i > Len(node.kids) THEN <<>>
    ELSE IF /\ node.kids[i].tag = "image"
            /\ DictGetOr(node.kids[i].attrib, "type", Absent) = "PNG"
         THEN <<i>>
    ELSE LET sub == FindImageIn(node.kids[i], 1)
         IN  IF sub # <<>> THEN <<i>> \o sub ELSE FindImageIn(node, i + 1)

\* str.strip() on the screenshot texts of the model
StripText(text) == IF text = " " THEN "" ELSE text

\* extract_image_from_element: the stripped text, or Absent for None
extract_image_from_element(element) ==
    LET at == FindImageIn(element, 1)
    IN  IF at # <<>> /\ Truthy(TextOf(NodeAt(element, at)))
        THEN StripText(TextOf(NodeAt(element, at)))
        ELSE Absent

\* generate_html lines 147-157: screenshot_b64, "" when none was found
ScreenshotOf(xml_root) ==
    IF RootElementPath(xml_root) # <<>>
    THEN LET image_data ==
                 extract_image_from_element(NodeAt(xml_root, RootElementPath(xml_root)))
         IN  IF Truthy(image_data) THEN image_data ELSE ""
    ELSE ""

\* hybrid viewer: first image with type="PNG" in xml_element.iter()
HybridImages(xml_element) ==
    LET all == IterNodes(xml_element, <<>>)
    IN  {i \in DOMAIN all : /\ all[i].node.tag = "image"
                            /\ DictGetOr(all[i].node.attrib, "type", Absent) = "PNG"}

\* generate_screenshot_html: an <img> with the text formatted into its src
\* (None prints as "None"), or the "Kein Screenshot" notice
generate_screenshot_html(xml_element) ==
    LET all == IterNodes(xml_element, <<>>)
    IN  IF HybridImages(xml_element) = {}
        THEN [state |-> "missing", data |-> ""]
        ELSE LET i == CHOOSE i \in HybridImages(xml_element) :
                          \A j \in HybridImages(xml_element) : i <= j
             IN  [state |-> "img",
                  data  |-> IF TextOf(all[i].node) = Absent THEN "None"
                            ELSE TextOf(all[i].node)]

ImageLeaves ==
    {MkImage(type, text) : type \in {"PNG", "JPG"}, text \in {Absent, " ", "AAAA", "BBBB"}}

RECURSIVE ImageForests(_)
RECURSIVE ImageTreesN(_)

ImageForests(n) ==
    IF n = 0 THEN {<<>>}
    ELSE UNION {{<<t>> \o f : t \in ImageTreesN(k), f \in ImageForests(n - k)} : k \in 1..n}

ImageTreesN(n) ==
    (IF n = 1 THEN ImageLeaves ELSE {})
        \cup {MkNode("element", EmptyPayload, ks) : ks \in ImageForests(n - 1)}

ImageDocs ==
    {MkNode("ui", EmptyPayload, ks) :
        ks \in UNION {ImageForests(n) : n \in 0..(MaxImageNodes - 1)}}

InitImage ==
    /\ doc \in ImageDocs
    /\ ViewerIdle
    /\ ImageIdle
    /\ IdleButImage

\* generate_html up to line 157
ExtractScreenshot ==
    /\ screenshot_b64 = NotRun
    /\ screenshot_b64' = [state |-> IF ScreenshotOf(doc) # "" THEN "img" ELSE "missing",
                          data  |-> ScreenshotOf(doc)]
    /\ UNCHANGED <<viewerVars, othersImage, hybridScreenshot>>

\* the hybrid viewer builds its screenshot pane for the same document
HybridScreenshot ==
    /\ hybridScreenshot = NotRun
    /\ hybridScreenshot' = generate_screenshot_html(doc)
    /\ UNCHANGED <<viewerVars, othersImage, screenshot_b64>>

NextImage == ExtractScreenshot \/ HybridScreenshot

SpecImage == InitImage /\ [][NextImage]_vars

\* the images of the document, in document order, with type="PNG" and text
ClaimedImages ==
    LET all == IterNodes(doc, <<>>)
    IN  {i \in DOMAIN all : /\ all[i].node.tag = "image"
                            /\ DictGetOr(all[i].node.attrib, "type", Absent) = "PNG"
                            /\ Truthy(StripText(TextOf(all[i].node)))}

ClaimedScreenshot ==
    LET all == IterNodes(doc, <<>>)
    IN  IF ClaimedImages = {} THEN [state |-> "missing", data |-> ""]
        ELSE LET i == CHOOSE i \in ClaimedImages : \A j \in ClaimedImages : i <= j
             IN  [state |-> "img", data |-> StripText(TextOf(all[i].node))]

HtmlScreenshotFirstPng == screenshot_b64 # NotRun => screenshot_b64 = ClaimedScreenshot

HybridScreenshotFirstPng == hybridScreenshot # NotRun => hybridScreenshot = ClaimedScreenshot

\* C11: the screenshot shown is the text of the first image element, in
\* document order anywhere in the parsed tree, with type="PNG" and non-empty
\* text; it is reported missing only when the document has no such element.
C11_FirstPngAnywhere == HtmlScreenshotFirstPng /\ HybridScreenshotFirstPng

(***************************************************************************)
(* Loading a file: parse_object_xml (squish_xml_viewer.py lines 24-43) and *)
(* the ET.parse loaders of the console and tkinter viewers.  File contents *)
(* are sequences of characters; InvalidByte is a byte that is not UTF-8.   *)
(***************************************************************************)
MaxPreamble == 3     \* characters in front of the document

InvalidByte == "<ff>"

Replacement == "U+FFFD"   \* what errors="replace" decodes a malformed byte to

DeclUi == <<"<", "?", ">", "<", "u", "i", "/", ">">>    \* <?xml?><ui/>

DeclA == <<"<", "?", ">", "<", "a", "/", ">">>          \* <?xml?><a/>

\* the well-formed documents of the model, with their root tags
WellFormedTexts ==
    {<<<<"<", "u", "i", "/", ">">>, "ui">>, <<<<"<", "a", "/", ">">>, "a">>,
     <<DeclUi, "ui">>, <<DeclA, "a">>,
     <<<<"<", "u", "i", ">", Replacement, "<", "/", "u", "i", ">">>, "ui">>}

IsWellFormed(content) == \E w \in WellFormedTexts : w[1] = content

RootTagOf(content) == (CHOOSE w \in WellFormedTexts : w[1] = content)[2]

\* str.find(pattern) counted from 1; 0 stands for Python's -1
Find(content, pattern) ==
    LET hits == {i \in 1..Len(content) :
                    /\ i + Len(pattern) - 1 <= Len(content)
                    /\ SubSeq(content, i, i + Len(pattern) - 1) = pattern}
    IN  IF hits = {} THEN 0 ELSE CHOOSE i \in hits : \A j \in hits : i <= j

\* lines 31-37: the content from the first "<ui", else from the first "<"
SkipPreamble(content) ==
    LET ui        == Find(content, <<"<", "u", "i">>)
        xml_start == IF ui = 0 THEN Find(content, <<"<">>) ELSE ui
    IN  IF xml_start > 1 THEN SubSeq(content, xml_start, Len(content)) ELSE content

\* the exception the body of the try block raises, "none" when it completes
RaisedByRead(f) ==
    IF ~f.exists THEN "FileNotFoundError"
    ELSE IF ~f.readable THEN "PermissionError"
    ELSE IF \E i \in DOMAIN f.bytes : f.bytes[i] = InvalidByte THEN "UnicodeDecodeError"
    ELSE IF ~IsWellFormed(SkipPreamble(f.bytes)) THEN "ParseError"
    ELSE "none"

\* except ET.ParseError: only parse errors are handled
CaughtParseErrorOnly(exc) == exc = "ParseError"

\* except Exception:
Caught(exc) ==
    exc \in {"FileNotFoundError", "PermissionError", "UnicodeDecodeError", "ParseError"}

\* parse_object_xml: the root's tag, None, or the exception that escapes
parse_object_xml(f) ==
    LET exc == RaisedByRead(f)
    IN  IF exc = "none" THEN [raised |-> "none", root |-> RootTagOf(SkipPreamble(f.bytes))]
        ELSE IF Caught(exc) THEN [raised |-> "none", root |-> "None"]
        ELSE [raised |-> exc, root |-> "None"]

\* generate_html lines 141-145
generate_html_load(f) ==
    LET r == parse_object_xml(f)
    IN  IF r.raised # "none" THEN [state |-> "raised", root |-> "None", message |-> r.raised]
        ELSE IF r.root = "None"
        THEN [state |-> "failed", root |-> "None", message |-> "Failed to parse XML file"]
        ELSE [state |-> "ok", root |-> r.root, message |-> ""]

\* squish_xml_viewer_desktop.py: generate_html_content raises on None and
\* load_xml_file shows every exception through show_error
desktop_load_xml_file(f) ==
    LET r == parse_object_xml(f)
    IN  IF r.raised # "none"
        THEN [state |-> "failed", root |-> "None",
              message |-> "Error loading XML file: " \o r.raised]
        ELSE IF r.root = "None"
        THEN [state |-> "failed", root |-> "None",
              message |-> "Error loading XML file: Failed to parse XML file"]
        ELSE [state |-> "ok", root |-> r.root, message |-> ""]

\* ET.parse(file_path) inside try / except Exception: the whole file is parsed
et_parse_load(f) ==
    IF f.exists /\ f.readable /\ IsWellFormed(f.bytes)
    THEN [state |-> "ok", root |-> RootTagOf(f.bytes), message |-> ""]
    ELSE [state |-> "failed", root |-> "None", message |-> "Fehler beim Laden"]

PreambleChars == {"x", "<", "u", "i", InvalidByte}

RECURSIVE Preambles(_)
Preambles(n) ==
    IF n = 0 THEN {<<>>}
    ELSE Preambles(n - 1) \cup {Append(p, c) : p \in Preambles(n - 1), c \in PreambleChars}

DocumentTexts ==
    {w[1] : w \in WellFormedTexts}
        \cup {<<>>, <<"<", "u", "i", ">">>, <<"<", "u", "i", ">", InvalidByte, "<", "/", "u", "i", ">">>}

Files ==
    {NoFile, [exists |-> TRUE, readable |-> FALSE, bytes |-> <<>>]}
        \cup {[exists |-> TRUE, readable |-> TRUE, bytes |-> p \o d] :
                  p \in Preambles(MaxPreamble), d \in DocumentTexts}

InitLoader ==
    /\ doc = MkNode("ui", EmptyPayload, <<>>)
    /\ ViewerIdle
    /\ IdleButLoader
    /\ file \in Files
    /\ LoaderNotRun

LoadHtml ==
    /\ htmlResult = NotRun
    /\ htmlResult' = generate_html_load(file)
    /\ UNCHANGED <<viewerVars, othersLoader, file, desktopResult, consoleResult, tkResult>>

LoadDesktop ==
    /\ desktopResult = NotRun
    /\ desktopResult' = desktop_load_xml_file(file)
    /\ UNCHANGED <<viewerVars, othersLoader, file, htmlResult, consoleResult, tkResult>>

LoadConsole ==
    /\ consoleResult = NotRun
    /\ consoleResult' = et_parse_load(file)
    /\ UNCHANGED <<viewerVars, othersLoader, file, htmlResult, desktopResult, tkResult>>

LoadTk ==
    /\ tkResult = NotRun
    /\ tkResult' = et_parse_load(file)
    /\ UNCHANGED <<viewerVars, othersLoader, file, htmlResult, desktopResult, consoleResult>>

NextLoader == LoadHtml \/ LoadDesktop \/ LoadConsole \/ LoadTk

SpecLoader == InitLoader /\ [][NextLoader]_vars

\* the file can be opened and decodes as UTF-8
Readable(f) ==
    f.exists /\ f.readable /\ \A i \in DOMAIN f.bytes : f.bytes[i] # InvalidByte

\* the text from the first "<ui", or from the first "<" when there is no "<ui"
ClaimedRemainder(content) ==
    LET ui == Find(content, <<"<", "u", "i">>)
        lt == Find(content, <<"<">>)
    IN  IF ui # 0 THEN SubSeq(content, ui, Len(content))
        ELSE IF lt # 0 THEN SubSeq(content, lt, Len(content))
        ELSE content

PreambleSkipped(result) ==
    (result # NotRun /\ Readable(file)) =>
        /\ result.state = "ok" <=> IsWellFormed(ClaimedRemainder(file.bytes))
        /\ result.state = "ok" => result.root = RootTagOf(ClaimedRemainder(file.bytes))

\* C12: the loader parses only the text from the first "<ui" (from the first
\* "<" when "<ui" does not occur), so a log preamble in front of a well-formed
\* document does not keep the file from loading: in squish_xml_viewer.py, its
\* desktop wrapper, the console viewer and the tkinter viewer.
C12_PreambleDiscarded ==
    /\ PreambleSkipped(htmlResult)
    /\ PreambleSkipped(desktopResult)
    /\ PreambleSkipped(consoleResult)
    /\ PreambleSkipped(tkResult)

HtmlPreambleDiscarded == PreambleSkipped(htmlResult) /\ PreambleSkipped(desktopResult)

\* the path does not exist, cannot be read, or its content does not parse
LoadMustFail == RaisedByRead(file) # "none"

\* C13: loading a path that does not exist, cannot be read or does not parse
\* raises nothing out of the loader; the load ends as a failure whose message
\* to the user is "Failed to parse XML file".
C13_LoadFailureSurfaced ==
    /\ htmlResult # NotRun =>
           /\ htmlResult.state # "raised"
           /\ LoadMustFail => /\ htmlResult.state = "failed"
                              /\ htmlResult.message = "Failed to parse XML file"
    /\ desktopResult # NotRun =>
           /\ desktopResult.state # "raised"
           /\ LoadMustFail =>
                  /\ desktopResult.state = "failed"
                  /\ desktopResult.message
                         = "Error loading XML file: Failed to parse XML file"

\* a path that does not exist has been given to both loaders
C13_Witness ==
    /\ ~file.exists
    /\ htmlResult # NotRun /\ htmlResult.state = "failed"
    /\ desktopResult # NotRun /\ desktopResult.state = "failed"

\* open(..., errors="replace"): every malformed byte becomes U+FFFD
ReplaceMalformed(bytes) ==
    [i \in DOMAIN bytes |-> IF bytes[i] = InvalidByte THEN Replacement ELSE bytes[i]]

\* C14: a file with bytes that are not valid UTF-8 still loads: the malformed
\* bytes are replaced and the rest of the document is parsed.
C14_MalformedBytesReplaced ==
    (/\ htmlResult # NotRun
     /\ file.exists /\ file.readable
     /\ \E i \in DOMAIN file.bytes : file.bytes[i] = InvalidByte
     /\ IsWellFormed(SkipPreamble(ReplaceMalformed(file.bytes))))
        => htmlResult.state = "ok"

(***************************************************************************)
(* Command-line entry points: main of squish_xml_viewer.py,                *)
(* squish_xml_viewer_templated.py and squish_xml_viewer_desktop_MINIMAL.py.*)
(***************************************************************************)
CliPreamble == 1     \* characters in front of the document in the CLI's input files

Exited(code) == [state |-> "exited", code |-> code]

\* generate_html of squish_xml_viewer.py: "returned" without output after a
\* failed parse, "raised" when the output cannot be written, else "written"
GenerateHtml(f, writable) ==
    IF parse_object_xml(f).root = "None" THEN "returned"
    ELSE IF ~writable THEN "raised"
    ELSE "written"

\* generate_html of the templated variant: it also returns without output
\* when a template file is missing
GenerateTemplated(f, writable, templates) ==
    IF parse_object_xml(f).root = "None" THEN "returned"
    ELSE IF ~templates THEN "returned"
    ELSE IF ~writable THEN "raised"
    ELSE "written"

\* the exit code of a run that fell off the end of main
FellOffEnd == 0

\* main of squish_xml_viewer.py and of the templated variant
MainExit(hasPath, f, generation) ==
    IF ~hasPath THEN 1
    ELSE IF ~f.exists THEN 2
    ELSE IF generation = "raised" THEN 3
    ELSE FellOffEnd

\* main of the minimal desktop variant: squish_xml_viewer.py runs as a
\* subprocess, then the generated file is looked for
MainMinimalExit(hasPath, f, writable, onDisk, webview) ==
    IF ~hasPath THEN 1
    ELSE IF ~f.exists THEN 2
    ELSE IF webview
    THEN IF MainExit(TRUE, f, GenerateHtml(f, writable)) # 0 THEN 3
         ELSE IF ~(onDisk \/ GenerateHtml(f, writable) = "written") THEN 4
         ELSE FellOffEnd
    ELSE FellOffEnd

CliFiles ==
    {NoFile, [exists |-> TRUE, readable |-> FALSE, bytes |-> <<>>]}
        \cup {[exists |-> TRUE, readable |-> TRUE, bytes |-> p \o d] :
                  p \in Preambles(CliPreamble), d \in DocumentTexts}

EmptyDoc == MkNode("ui", EmptyPayload, <<>>)

InitCli ==
    /\ doc = EmptyDoc
    /\ ViewerIdle
    /\ IdleButCli
    /\ cliVariant \in {"viewer", "templated", "minimal"}
    /\ argvPath \in BOOLEAN
    /\ xml_path \in (IF argvPath THEN CliFiles ELSE {NoFile})
    /\ outWritable \in BOOLEAN
    /\ htmlOnDisk \in BOOLEAN
    /\ templatesPresent \in BOOLEAN
    /\ webviewAvailable \in BOOLEAN
    /\ exitStatus = NotRun

MainViewer ==
    /\ cliVariant = "viewer"
    /\ exitStatus = NotRun
    /\ exitStatus' = Exited(MainExit(argvPath, xml_path, GenerateHtml(xml_path, outWritable)))
    /\ htmlOnDisk' = (htmlOnDisk \/ (/\ argvPath /\ xml_path.exists
                                    /\ GenerateHtml(xml_path, outWritable) = "written"))
    /\ UNCHANGED <<viewerVars, othersCli, cliVariant, argvPath, xml_path, outWritable,
                   templatesPresent, webviewAvailable>>

MainTemplated ==
    /\ cliVariant = "templated"
    /\ exitStatus = NotRun
    /\ exitStatus' = Exited(MainExit(argvPath, xml_path,
                                     GenerateTemplated(xml_path, outWritable, templatesPresent)))
    /\ htmlOnDisk' = (htmlOnDisk \/ (/\ argvPath /\ xml_path.exists
                                    /\ GenerateTemplated(xml_path, outWritable,
                                                         templatesPresent) = "written"))
    /\ UNCHANGED <<viewerVars, othersCli, cliVariant, argvPath, xml_path, outWritable,
                   templatesPresent, webviewAvailable>>

MainMinimal ==
    /\ cliVariant = "minimal"
    /\ exitStatus = NotRun
    /\ exitStatus' = Exited(MainMinimalExit(argvPath, xml_path, outWritable, htmlOnDisk,
                                            webviewAvailable))
    /\ htmlOnDisk' = (htmlOnDisk \/ (/\ argvPath /\ xml_path.exists
                                    /\ GenerateHtml(xml_path, outWritable) = "written"))
    /\ UNCHANGED <<viewerVars, othersCli, cliVariant, argvPath, xml_path, outWritable,
                   templatesPresent, webviewAvailable>>

NextCli == MainViewer \/ MainTemplated \/ MainMinimal

SpecCli == InitCli /\ [][NextCli]_vars

\* C15: a CLI variant ends with 1 when the path argument is missing, 2 when
\* the input file does not exist, 3 when generation raised, and 0 otherwise;
\* no other exit code is produced.
C15_ExitCodes ==
    exitStatus # NotRun =>
        /\ exitStatus.code \in {0, 1, 2, 3}
        /\ ~argvPath => exitStatus.code = 1
        /\ (argvPath /\ ~xml_path.exists) => exitStatus.code = 2
        /\ (argvPath /\ xml_path.exists /\ exitStatus.code # 0) => exitStatus.code = 3

ViewerExitCodes == cliVariant # "minimal" => C15_ExitCodes

(***************************************************************************)
(* Desktop sessions: load_xml_file, reload_file and close_file of the      *)
(* tkinter viewer (lines 408-433, 906-930); the PyQt viewer (lines         *)
(* 279-306, 585-604) and squish_xml_viewer_desktop.py (lines 868-892)      *)
(* assign the path before parsing in the same way.                         *)
(***************************************************************************)
Paths == {"a.xml", "b.xml", "c.xml"}

FileStates == {"ok", "malformed", "missing"}

\* load_xml_file(file_path): the path is stored, then the file is parsed
OpenFile(path) ==
    /\ path \in Paths
    /\ current_file' = path
    /\ IF disk[path] = "ok"
       THEN /\ xml_data' = path
            /\ treeview' = path
            /\ UNCHANGED messagebox
       ELSE /\ messagebox' = "Fehler beim Laden der XML-Datei"
            /\ UNCHANGED <<xml_data, treeview>>
    /\ UNCHANGED <<viewerVars, othersDesk, disk>>

\* reload_file
ReloadFile ==
    /\ current_file # None
    /\ OpenFile(current_file)

\* close_file
CloseFile ==
    /\ current_file' = None
    /\ xml_data' = None
    /\ treeview' = None
    /\ UNCHANGED <<viewerVars, othersDesk, disk, messagebox>>

InitDesk ==
    /\ doc = EmptyDoc
    /\ ViewerIdle
    /\ IdleButDesk
    /\ disk \in [Paths -> FileStates]
    /\ current_file = None
    /\ xml_data = None
    /\ treeview = None
    /\ messagebox = None

NextDesk == (\E path \in Paths : OpenFile(path)) \/ ReloadFile \/ CloseFile

SpecDesk == InitDesk /\ [][NextDesk]_vars

\* C16: a load that fails (missing file or parse error) leaves the current
\* file path, the parsed tree and the displayed tree as they were, so that a
\* later reload opens the file loaded before and not the one that failed.
C16_FailedLoadKeepsState ==
    [][\A path \in Paths :
          (disk[path] # "ok" /\ OpenFile(path))
              => UNCHANGED <<current_file, xml_data, treeview>>]_vars

\* what a failed load does keep: the parsed and the displayed document
FailedLoadKeepsDocument ==
    [][\A path \in Paths :
          (disk[path] # "ok" /\ OpenFile(path)) => UNCHANGED <<xml_data, treeview>>]_vars

(***************************************************************************)
(* Startup: load_settings of the hybrid viewer (lines 488-517),            *)
(* load_config of squish_xml_viewer_desktop_backup.py (lines 852-863) and  *)
(* load_initial_file of main_app.py (lines 191-205).                       *)
(***************************************************************************)
MaxLastFiles == 2    \* paths stored in the config file

\* missing: no file; unreadable: open is refused; undecodable: bytes that are
\* no text; garbage: text that is neither JSON nor a path; wrongtype: JSON
\* that is no object; valid: the stored paths `files`
ConfigKinds == {"missing", "unreadable", "undecodable", "garbage", "wrongtype", "valid"}

\* the exception reading the config raises in the JSON-based viewers
RaisedByJsonConfig(cfg) ==
    CASE cfg.kind = "unreadable"  -> "PermissionError"
      [] cfg.kind = "undecodable" -> "UnicodeDecodeError"
      [] cfg.kind = "garbage"     -> "JSONDecodeError"
      [] cfg.kind = "wrongtype"   -> "AttributeError"
      [] OTHER                    -> "none"

\* [f for f in files if os.path.exists(f)]
ExistingFiles(files, existing) == SelectSeq(files, LAMBDA f : f \in existing)

Started(files) == [state |-> "started", last_files |-> files]

Crashed(exc) == [state |-> "raised", exc |-> exc]

\* hybrid load_settings and backup load_config: os.path.exists guards the
\* open, and except Exception falls back to the defaults
load_settings(cfg, existing) ==
    IF cfg.kind = "missing" THEN Started(<<>>)
    ELSE IF RaisedByJsonConfig(cfg) # "none" THEN Started(<<>>)
    ELSE Started(ExistingFiles(cfg.files, existing))

\* the exception reading .last_opened_file raises in main_app.py
RaisedByPathConfig(cfg) ==
    CASE cfg.kind = "missing"     -> "FileNotFoundError"
      [] cfg.kind = "unreadable"  -> "PermissionError"
      [] cfg.kind = "undecodable" -> "UnicodeDecodeError"
      [] OTHER                    -> "none"

\* main_app load_initial_file without a path argument: only FileNotFoundError
\* is handled; the file holds one path, shown if it is a file
load_initial_file(cfg, existing) ==
    LET exc == RaisedByPathConfig(cfg)
    IN  IF exc = "FileNotFoundError" THEN Started(<<>>)
        ELSE IF exc # "none" THEN Crashed(exc)
        ELSE IF cfg.kind = "valid" /\ cfg.files # <<>> /\ cfg.files[1] \in existing
        THEN Started(<<cfg.files[1]>>)
        ELSE Started(<<>>)

RECURSIVE PathLists(_)
PathLists(n) ==
    IF n = 0 THEN {<<>>}
    ELSE PathLists(n - 1) \cup {Append(l, p) : l \in PathLists(n - 1), p \in Paths}

Configs ==
    {[kind |-> k, files |-> <<>>] : k \in ConfigKinds \ {"valid"}}
        \cup {[kind |-> "valid", files |-> l] : l \in PathLists(MaxLastFiles)}

InitConfig ==
    /\ doc = EmptyDoc
    /\ ViewerIdle
    /\ IdleButConfig
    /\ appVariant \in {"hybrid", "backup", "main_app"}
    /\ config \in Configs
    /\ existingPaths \in SUBSET Paths
    /\ startup = NotRun

StartHybrid ==
    /\ appVariant = "hybrid"
    /\ startup = NotRun
    /\ startup' = load_settings(config, existingPaths)
    /\ UNCHANGED <<viewerVars, othersConfig, appVariant, config, existingPaths>>

StartBackup ==
    /\ appVariant = "backup"
    /\ startup = NotRun
    /\ startup' = load_settings(config, existingPaths)
    /\ UNCHANGED <<viewerVars, othersConfig, appVariant, config, existingPaths>>

StartMainApp ==
    /\ appVariant = "main_app"
    /\ startup = NotRun
    /\ startup' = load_initial_file(config, existingPaths)
    /\ UNCHANGED <<viewerVars, othersConfig, appVariant, config, existingPaths>>

NextConfig == StartHybrid \/ StartBackup \/ StartMainApp

SpecConfig == InitConfig /\ [][NextConfig]_vars

\* C17: with a missing, unreadable or corrupt config file, startup completes
\* without an exception and with the default state, no last files.
C17_BadConfigIsNoSession ==
    (startup # NotRun /\ config.kind # "valid")
        => startup = Started(<<>>)

JsonConfigIsNoSession == appVariant # "main_app" => C17_BadConfigIsNoSession

(***************************************************************************)
(* Threads.  The tkinter viewer animates its toasts in daemon threads; the  *)
(* folder view of the webview viewer re-initialises the overlay from a      *)
(* threading.Timer.  Each step records the thread that executed it.         *)
(***************************************************************************)
MaxToasts == 2          \* toasts shown in one run
FadeSteps == 20         \* alpha goes from 0.0 to 1.0 in steps of 0.05
MaxFolderTimers == 2    \* timers started and not yet fired

\* a Tk call made from a thread that is not the main thread: it is carried
\* out, or it raises (RuntimeError, TclError) and the bare except returns
TkCallOutcomes == {"done", "raised"}

Toast(alpha, pc) == [alpha |-> alpha, pc |-> pc]

Remove(seq, x) == SelectSeq(seq, LAMBDA y : y # x)

InitThread ==
    /\ doc = EmptyDoc
    /\ ViewerIdle
    /\ IdleButThread
    /\ toast_windows = <<>>
    /\ toasts = <<>>
    /\ thread = "ui"
    /\ current_xml_path = None
    /\ folderTimers = 0

\* show_toast, on the UI thread: create the window, append it to the list and
\* start the fade-in thread
show_toast ==
    /\ Len(toasts) < MaxToasts
    /\ toasts' = Append(toasts, Toast(0, "fade_in"))
    /\ toast_windows' = Append(toast_windows, Len(toasts) + 1)
    /\ thread' = "ui"
    /\ UNCHANGED <<viewerVars, othersThread, current_xml_path, folderTimers>>

\* fade_in animate(), in its own thread: one round of the loop, or after the
\* loop toast.after(duration, fade_out)
fade_in(t) ==
    /\ t \in DOMAIN toasts
    /\ toasts[t].pc = "fade_in"
    /\ IF toasts[t].alpha < FadeSteps
       THEN \E outcome \in TkCallOutcomes :
                toasts' = [toasts EXCEPT ![t] =
                    IF outcome = "done" THEN Toast(@.alpha + 1, "fade_in")
                    ELSE Toast(@.alpha, "returned")]
       ELSE toasts' = [toasts EXCEPT ![t].pc = "scheduled"]
    /\ thread' = "worker"
    /\ UNCHANGED <<viewerVars, othersThread, toast_windows, current_xml_path, folderTimers>>

\* the after() callback, on the UI thread: fade_out starts its thread
fade_out(t) ==
    /\ t \in DOMAIN toasts
    /\ toasts[t].pc = "scheduled"
    /\ toasts' = [toasts EXCEPT ![t].pc = "fade_out"]
    /\ thread' = "ui"
    /\ UNCHANGED <<viewerVars, othersThread, toast_windows, current_xml_path, folderTimers>>

\* fade_out animate(), in its own thread: one round of the loop, or after the
\* loop the removal from toast_windows and destroy()
fade_out_animate(t) ==
    /\ t \in DOMAIN toasts
    /\ toasts[t].pc = "fade_out"
    /\ IF toasts[t].alpha > 0
       THEN /\ \E outcome \in TkCallOutcomes :
                toasts' = [toasts EXCEPT ![t] =
                    IF outcome = "done" THEN Toast(@.alpha - 1, "fade_out")
                    ELSE Toast(@.alpha, "returned")]
            /\ UNCHANGED toast_windows
       ELSE /\ toast_windows' = Remove(toast_windows, t)
            /\ toasts' = [toasts EXCEPT ![t].pc = "destroyed"]
    /\ thread' = "worker"
    /\ UNCHANGED <<viewerVars, othersThread, current_xml_path, folderTimers>>

\* load_xml_from_folder: the path is recorded first; with content and webview
\* the page is loaded and a Timer is started, else show_error
load_xml_from_folder(xml_path_, hasContent) ==
    /\ current_xml_path' = xml_path_
    /\ IF hasContent
       THEN /\ folderTimers < MaxFolderTimers
            /\ folderTimers' = folderTimers + 1
       ELSE UNCHANGED folderTimers
    /\ thread' = "ui"
    /\ UNCHANGED <<viewerVars, othersThread, toast_windows, toasts>>

\* reinit_overlay, on the Timer's thread: evaluate_js, no field of the viewer
reinit_overlay ==
    /\ folderTimers > 0
    /\ folderTimers' = folderTimers - 1
    /\ thread' = "timer"
    /\ UNCHANGED <<viewerVars, othersThread, toast_windows, toasts, current_xml_path>>

NextThread ==
    \/ show_toast
    \/ \E t \in 1..MaxToasts : fade_in(t)
    \/ \E t \in 1..MaxToasts : fade_out(t)
    \/ \E t \in 1..MaxToasts : fade_out_animate(t)
    \/ \E p \in Paths, hasContent \in BOOLEAN : load_xml_from_folder(p, hasContent)
    \/ reinit_overlay

SpecThread == InitThread /\ [][NextThread]_vars

\* C18: the toast window list and every other field of the viewers changes
\* only in steps executed by the UI thread.
C18_UiThreadOnly ==
    [][(toast_windows' # toast_windows \/ toasts' # toasts
            \/ current_xml_path' # current_xml_path)
        => thread' = "ui"]_vars

\* the part that holds: toasts are added, and the folder view's path is set,
\* on the UI thread
ToastAddedOnUiThread ==
    [][(Len(toast_windows') > Len(toast_windows)
            \/ current_xml_path' # current_xml_path)
        => thread' = "ui"]_vars

\* the toast list is changed by a thread other than the UI thread
ToastListOnUiThread ==
    [][toast_windows' # toast_windows => thread' = "ui"]_vars

(***************************************************************************)
(* The raw XML of a node.  build_tree_html serialises the element, escapes  *)
(* it for HTML and stores it in data-xml; the page's getSelectedNodeXml     *)
(* reads the attribute and decodes HTML entities.  A text is a sequence of  *)
(* tokens: a character, a name, or the name of a character reference.       *)
(***************************************************************************)
MaxValueLen == 1        \* characters of an attribute value
MaxAttribs == 2         \* attributes of the element

XmlTags == {"element", "ui"}
XmlAttrNames == {"class", "name"}
XmlChars == {"a", "&", "<", ">", "\"", "'", "\n"}

\* ElementTree _escape_attrib
EscapeAttribChar(c) ==
    CASE c = "&" -> <<"&", "amp", ";">>
      [] c = "<" -> <<"&", "lt", ";">>
      [] c = ">" -> <<"&", "gt", ";">>
      [] c = "\"" -> <<"&", "quot", ";">>
      [] c = "\n" -> <<"&", "#10", ";">>
      [] OTHER -> <<c>>

RECURSIVE escape_attrib(_)
escape_attrib(text) ==
    IF text = <<>> THEN <<>>
    ELSE EscapeAttribChar(Head(text)) \o escape_attrib(Tail(text))

\* html.escape with quote=True; the following .replace('"', '&quot;') finds
\* no quote left
HtmlEscapeChar(c) ==
    CASE c = "&" -> <<"&", "amp", ";">>
      [] c = "<" -> <<"&", "lt", ";">>
      [] c = ">" -> <<"&", "gt", ";">>
      [] c = "\"" -> <<"&", "quot", ";">>
      [] c = "'" -> <<"&", "#x27", ";">>
      [] OTHER -> <<c>>

RECURSIVE escape(_)
escape(text) ==
    IF text = <<>> THEN <<>>
    ELSE HtmlEscapeChar(Head(text)) \o escape(Tail(text))

\* the character references an HTML parser resolves
HtmlEntity ==
    [n \in {"amp", "lt", "gt", "quot", "#x27", "#39", "#10"} |->
        CASE n = "amp" -> "&" [] n = "lt" -> "<" [] n = "gt" -> ">"
          [] n = "quot" -> "\"" [] n = "#10" -> "\n" [] OTHER -> "'"]

\* the character references an XML parser resolves
XmlEntity ==
    [n \in {"amp", "lt", "gt", "quot", "apos", "#x27", "#39", "#10"} |->
        CASE n = "amp" -> "&" [] n = "lt" -> "<" [] n = "gt" -> ">"
          [] n = "quot" -> "\"" [] n = "#10" -> "\n" [] OTHER -> "'"]

IsReference(text, entities) ==
    /\ Len(text) >= 3
    /\ text[1] = "&"
    /\ text[2] \in DOMAIN entities
    /\ text[3] = ";"

\* an HTML parser reading an attribute value or the content of a textarea
RECURSIVE HtmlDecode(_)
HtmlDecode(text) ==
    IF text = <<>> THEN <<>>
    ELSE IF IsReference(text, HtmlEntity)
    THEN <<HtmlEntity[text[2]]>> \o HtmlDecode(SubSeq(text, 4, Len(text)))
    ELSE <<Head(text)>> \o HtmlDecode(Tail(text))

\* ET.tostring(node, encoding='unicode') of an element without content
RECURSIVE AttribText(_)
AttribText(attrib) ==
    IF attrib = <<>> THEN <<>>
    ELSE <<" ", Head(attrib).name, "=", "\"">> \o escape_attrib(Head(attrib).value)
            \o <<"\"">> \o AttribText(Tail(attrib))

tostring(node) == <<"<", node.tag>> \o AttribText(node.attrib) \o <<" ", "/", ">">>

ParseError == [ok |-> FALSE]

\* an XML parser reading the text between the quotes of an attribute
RECURSIVE XmlAttrValue(_)
XmlAttrValue(text) ==
    IF text = <<>> THEN [ok |-> TRUE, value |-> <<>>]
    ELSE IF Head(text) = "<" THEN ParseError
    ELSE IF Head(text) = "&"
    THEN IF IsReference(text, XmlEntity)
         THEN LET rest == XmlAttrValue(SubSeq(text, 4, Len(text)))
              IN  IF rest.ok
                  THEN [ok |-> TRUE, value |-> <<XmlEntity[text[2]]>> \o rest.value]
                  ELSE ParseError
         ELSE ParseError
    ELSE LET rest == XmlAttrValue(Tail(text))
         IN  IF rest.ok THEN [ok |-> TRUE, value |-> <<Head(text)>> \o rest.value]
             ELSE ParseError

\* the position of the first quote at or after i, 0 if there is none
RECURSIVE NextQuote(_, _)
NextQuote(text, i) ==
    IF i > Len(text) THEN 0
    ELSE IF text[i] = "\"" THEN i
    ELSE NextQuote(text, i + 1)

RECURSIVE ParseAttribs(_, _, _)
ParseAttribs(text, i, acc) ==
    IF i + 2 = Len(text) /\ SubSeq(text, i, i + 2) = <<" ", "/", ">">>
    THEN [ok |-> TRUE, attrib |-> acc]
    ELSE IF /\ i + 3 <= Len(text)
            /\ text[i] = " "
            /\ text[i + 1] \in XmlAttrNames
            /\ text[i + 2] = "="
            /\ text[i + 3] = "\""
    THEN LET j == NextQuote(text, i + 4)
             v == XmlAttrValue(SubSeq(text, i + 4, j - 1))
         IN  IF j = 0 THEN ParseError
             ELSE IF ~v.ok THEN ParseError
             ELSE IF \E k \in 1..Len(acc) : acc[k].name = text[i + 1] THEN ParseError
             ELSE ParseAttribs(text, j + 1,
                               Append(acc, [name |-> text[i + 1], value |-> v.value]))
    ELSE ParseError

\* ET.fromstring of a text
fromstring(text) ==
    IF Len(text) >= 5 /\ text[1] = "<" /\ text[2] \in XmlTags
    THEN LET a == ParseAttribs(text, 3, <<>>)
         IN  IF a.ok THEN [ok |-> TRUE, tag |-> text[2], attrib |-> a.attrib]
             ELSE ParseError
    ELSE ParseError

RECURSIVE XmlTexts(_)
XmlTexts(n) ==
    IF n = 0 THEN {<<>>}
    ELSE XmlTexts(n - 1) \cup {Append(t, c) : t \in XmlTexts(n - 1), c \in XmlChars}

\* attribute values: short texts, and the text of a reference
XmlAttrValues == XmlTexts(MaxValueLen) \cup {<<"&", "lt", ";">>}

RECURSIVE XmlAttribs(_)
XmlAttribs(n) ==
    IF n = 0 THEN {<<>>}
    ELSE XmlAttribs(n - 1) \cup
         {Append(a, [name |-> k, value |-> v]) :
            a \in {b \in XmlAttribs(n - 1) : Len(b) = n - 1},
            k \in XmlAttrNames, v \in XmlAttrValues}

DistinctNames(attrib) ==
    \A i, j \in 1..Len(attrib) : attrib[i].name = attrib[j].name => i = j

XmlNodes ==
    {[tag |-> t, attrib |-> a] :
        t \in XmlTags, a \in {b \in XmlAttribs(MaxAttribs) : DistinctNames(b)}}

InitXml ==
    /\ doc = EmptyDoc
    /\ ViewerIdle
    /\ IdleButXml
    /\ xmlNode \in XmlNodes
    /\ data_xml = NoText
    /\ domDataXml = NoText
    /\ selectedXml = NoText

\* build_tree_html: the snippet, escaped, goes into data-xml="..."
RenderDataXml ==
    /\ data_xml = NoText
    /\ data_xml' = escape(tostring(xmlNode))
    /\ UNCHANGED <<viewerVars, othersXml, xmlNode, domDataXml, selectedXml>>

\* the browser parses the page: references in the attribute are resolved
ParseDataXml ==
    /\ data_xml # NoText
    /\ domDataXml = NoText
    /\ domDataXml' = HtmlDecode(data_xml)
    /\ UNCHANGED <<viewerVars, othersXml, xmlNode, data_xml, selectedXml>>

\* getAttribute("data-xml"), textarea.innerHTML = xml_string, textarea.value
getSelectedNodeXml ==
    /\ domDataXml # NoText
    /\ selectedXml = NoText
    /\ selectedXml' = HtmlDecode(domDataXml)
    /\ UNCHANGED <<viewerVars, othersXml, xmlNode, data_xml, domDataXml>>

NextXml == RenderDataXml \/ ParseDataXml \/ getSelectedNodeXml

SpecXml == InitXml /\ [][NextXml]_vars

AttribSet(attrib) == {attrib[i] : i \in 1..Len(attrib)}

SameElement(text) ==
    LET parsed == fromstring(text)
    IN  /\ parsed.ok
        /\ parsed.tag = xmlNode.tag
        /\ AttribSet(parsed.attrib) = AttribSet(xmlNode.attrib)

\* C19: parsing the raw XML that getSelectedNodeXml returns for a node gives
\* an element with the tag and the attributes of the node it was rendered from.
C19_RawXmlRoundTrip == selectedXml # NoText => SameElement(selectedXml)

\* the part that holds: the attribute as the page stores it parses back
StoredXmlRoundTrips == domDataXml # NoText => SameElement(domDataXml)

\* the decoded text is at least a well-formed element
DecodedXmlParses == selectedXml # NoText => fromstring(selectedXml).ok

(***************************************************************************)
(* The properties list.  An entry is a property element: its name          *)
(* attribute, its own text (the characters before its first child) and the *)
(* text of its string child.  Absent is a missing attribute or child, ""   *)
(* a text that is None or empty.                                           *)
(***************************************************************************)
MaxEntries == 2         \* property elements under properties

Indent == "\n  "        \* the text of a property element that is pretty-printed

EntryNames == {Absent, "text", "toolTip"}
EntryTexts == {"", Indent, "5"}
EntryStrings == {Absent, "", "OK"}

Entries ==
    {[name |-> n, text |-> t, string |-> st] :
        n \in EntryNames, t \in EntryTexts, st \in EntryStrings}

RECURSIVE EntryLists(_)
EntryLists(n) ==
    IF n = 0 THEN {<<>>}
    ELSE EntryLists(n - 1) \cup
         {Append(l, en) : l \in {m \in EntryLists(n - 1) : Len(m) = n - 1}, en \in Entries}

\* the texts of the model in the order Python compares strings
TextOrder == <<"", Indent, "5", "OK", "text", "toolTip">>

Rank(text) == CHOOSE i \in DOMAIN TextOrder : TextOrder[i] = text

\* tuple comparison of (name, value) rows
RowLess(a, b) ==
    \/ Rank(a[1]) < Rank(b[1])
    \/ Rank(a[1]) = Rank(b[1]) /\ Rank(a[2]) < Rank(b[2])

RECURSIVE InsertRow(_, _)
InsertRow(sorted, row) ==
    IF sorted = <<>> THEN <<row>>
    ELSE IF RowLess(row, Head(sorted)) THEN <<row>> \o sorted
    ELSE <<Head(sorted)>> \o InsertRow(Tail(sorted), row)

RECURSIVE SortRows(_)
SortRows(rows) ==
    IF rows = <<>> THEN <<>>
    ELSE InsertRow(SortRows(SubSeq(rows, 1, Len(rows) - 1)), rows[Len(rows)])

Reversed(rows) == [i \in DOMAIN rows |-> rows[Len(rows) + 1 - i]]

\* update_properties lines 716-723: prop.text or prop.find('string'); an entry
\* with neither gets no row
RECURSIVE CollectProps(_)
CollectProps(entries) ==
    IF entries = <<>> THEN <<>>
    ELSE LET prop == Head(entries)
             rest == CollectProps(Tail(entries))
         IN  IF Truthy(prop.text) THEN <<<<PropName(prop), prop.text>>>> \o rest
             ELSE IF prop.string # Absent
             THEN <<<<PropName(prop), prop.string>>>> \o rest
             ELSE rest

\* update_properties lines 724-732: the rows in the order of the Sort setting
update_properties(entries, sort) ==
    LET props == CollectProps(entries)
    IN  IF sort = "asc" THEN SortRows(props)
        ELSE IF sort = "desc" THEN Reversed(SortRows(props))
        ELSE props

InitPane ==
    /\ doc = EmptyDoc
    /\ ViewerIdle
    /\ IdleButPane
    /\ propertyEntries \in EntryLists(MaxEntries)
    /\ sort_var \in {"desc", "asc", "none"}
    /\ propertyMap = NoRows
    /\ propertyRows = NoRows

\* build_tree_html lines 106-114 on an element with a properties child
BuildPropertyMap ==
    /\ propertyMap = NoRows
    /\ propertyMap' = AddPropertyList(<<>>, propertyEntries)
    /\ UNCHANGED <<viewerVars, othersPane, propertyEntries, sort_var, propertyRows>>

\* update_properties for the selected element
UpdateProperties ==
    /\ propertyRows = NoRows
    /\ propertyRows' = update_properties(propertyEntries, sort_var)
    /\ UNCHANGED <<viewerVars, othersPane, propertyEntries, sort_var, propertyMap>>

\* the Sort combobox: refresh_properties shows the rows again
SelectSort(sort) ==
    /\ propertyRows # NoRows
    /\ sort # sort_var
    /\ sort_var' = sort
    /\ propertyRows' = update_properties(propertyEntries, sort)
    /\ UNCHANGED <<viewerVars, othersPane, propertyEntries, propertyMap>>

NextPane ==
    \/ BuildPropertyMap
    \/ UpdateProperties
    \/ \E sort \in {"desc", "asc", "none"} : SelectSort(sort)

SpecPane == InitPane /\ [][NextPane]_vars

\* the value the entry is to be shown with
ClaimedValue(prop) == IF Truthy(prop.string) THEN prop.string ELSE ""

\* the entries that are the last of their name
LastOfName(i) ==
    \A j \in DOMAIN propertyEntries :
        PropName(propertyEntries[j]) = PropName(propertyEntries[i]) => j <= i

MapHasEntry(i) ==
    /\ DictHas(propertyMap, PropName(propertyEntries[i]))
    /\ DictGet(propertyMap, PropName(propertyEntries[i])) = ClaimedValue(propertyEntries[i])

RowsHaveEntry(i) ==
    \E r \in DOMAIN propertyRows :
        propertyRows[r] = <<PropName(propertyEntries[i]), ClaimedValue(propertyEntries[i])>>

HtmlPropertyValues ==
    propertyMap # NoRows => \A i \in DOMAIN propertyEntries : LastOfName(i) => MapHasEntry(i)

TkPropertyValues ==
    propertyRows # NoRows => \A i \in DOMAIN propertyEntries : LastOfName(i) => RowsHaveEntry(i)

RenderContent(obj_root) == build_tree_html(obj_root, <<>>, 0, DefaultCounter)

RenderDesktop ==
    /\ desktopTree = NoTree
    /\ desktopTree' = RenderContent(doc).nodes
    /\ UNCHANGED <<viewerVars, othersRoot>>

NextRoot == Render \/ RenderDesktop

SpecRoot == InitTree /\ [][NextRoot]_vars

\* the first element-tagged node of the document, the top-level node included
HasElementNode == doc.tag = "element" \/ FindElementIn(doc, 1) # <<>>

ClaimedRootPath == IF doc.tag = "element" THEN <<>> ELSE FindElementIn(doc, 1)

RootIsFirstElement(t) ==
    (t # NoTree /\ HasElementNode) => t[1].path = ClaimedRootPath

\* every rendered node has all the children the XML gives it
SubtreeRendered(t) ==
    \A i \in DOMAIN t :
        {t[j].path : j \in {j \in DOMAIN t : t[j].parent = t[i].id}}
            = ExpectedChildPaths(t[i].path)

\* C21: the rendered root is the first element-tagged node of the document
\* in document order (the top-level node if it is tagged element), and the
\* rendered tree holds the whole subtree below it.
C21_RootIsFirstElement ==
    /\ RootIsFirstElement(tree) /\ SubtreeRendered(tree)
    /\ RootIsFirstElement(desktopTree) /\ SubtreeRendered(desktopTree)

\* the parts that hold: below a top-level node that is not an element,
\* generate_html starts at the first element; the desktop viewer starts at
\* the top-level node whatever its tag; both render whole subtrees
HtmlRootBelowOtherTop == doc.tag # "element" => RootIsFirstElement(tree)

DesktopRootIsTop == desktopTree # NoTree => desktopTree[1].path = <<>>

BothRenderSubtree == SubtreeRendered(tree) /\ SubtreeRendered(desktopTree)

\* generate_html alone, and the desktop viewer alone
HtmlRootIsFirstElement == RootIsFirstElement(tree)

DesktopRootIsFirstElement == RootIsFirstElement(desktopTree)

(***************************************************************************)
(* Ids of one render pass.                                                 *)
(***************************************************************************)
\* C22: one render pass numbers the N rendered nodes 1..N without gaps, each
\* node before any of its children, and the root call returns N + 1.
C22_IdsOneToN ==
    tree # NoTree =>
        /\ {tree[i].id : i \in DOMAIN tree} = 1..Len(tree)
        /\ \A i \in DOMAIN tree : tree[i].id = i
        /\ \A i \in DOMAIN tree : tree[i].parent # 0 => tree[i].parent < tree[i].id
        /\ lastCounter = Len(tree) + 1

\* a pass over a rendered root with a child and a grandchild, and a sibling
\* rendered after the grandchild
C22_Witness ==
    /\ Len(tree) >= 4
    /\ lastCounter = Len(tree) + 1
    /\ \E i, j \in DOMAIN tree :
        /\ tree[i].parent = tree[1].id
        /\ tree[j].parent = tree[i].id
    /\ tree[Len(tree)].parent = tree[1].id

(***************************************************************************)
(* The recent-files list of the backup desktop viewer.  A path is a number. *)
(***************************************************************************)
max_recent_files == 10  \* self.max_recent_files
RecentPathCount == 12   \* distinct paths that can be opened
MaxRecentCalls == 2     \* handlers run per behaviour

RecentPaths == 1..RecentPathCount

\* list.remove(x): the first occurrence goes
RECURSIVE ListRemove(_, _)
ListRemove(list, x) ==
    IF list = <<>> THEN <<>>
    ELSE IF Head(list) = x THEN Tail(list)
    ELSE <<Head(list)>> \o ListRemove(Tail(list), x)

InList(x, list) == \E i \in DOMAIN list : list[i] = x

\* list[:n]
Take(list, n) == SubSeq(list, 1, IF Len(list) < n THEN Len(list) ELSE n)

\* add_recent_file without the slice to max_recent_files
add_recent_file_untrimmed(list, filepath) ==
    <<filepath>> \o (IF InList(filepath, list) THEN ListRemove(list, filepath) ELSE list)

\* add_recent_file lines 876-879
add_recent_file(list, filepath) ==
    Take(<<filepath>> \o (IF InList(filepath, list) THEN ListRemove(list, filepath) ELSE list),
         max_recent_files)

\* save_config: the list is written, or the write fails and is only reported
save_config(list, written) == IF written THEN list ELSE savedRecent

\* the list after paths k, ..., 1 were opened in the order 1, ..., k
Countdown(k) == [i \in 1..k |-> k + 1 - i]

InitRecent ==
    /\ doc = EmptyDoc
    /\ ViewerIdle
    /\ IdleButRecent
    /\ \E k \in 0..max_recent_files : recent_files = Countdown(k)
    /\ savedRecent = recent_files
    /\ recentCalls = 0

\* load_xml_file with content generated: add_recent_file, save_config
LoadRecent(filepath, written) ==
    /\ recentCalls < MaxRecentCalls
    /\ recent_files' = add_recent_file(recent_files, filepath)
    /\ savedRecent' = save_config(recent_files', written)
    /\ recentCalls' = recentCalls + 1
    /\ UNCHANGED <<viewerVars, othersRecent>>

\* open_recent_file for a path that no longer exists
open_recent_file(filepath, written) ==
    /\ recentCalls < MaxRecentCalls
    /\ InList(filepath, recent_files)
    /\ recent_files' = ListRemove(recent_files, filepath)
    /\ savedRecent' = save_config(recent_files', written)
    /\ recentCalls' = recentCalls + 1
    /\ UNCHANGED <<viewerVars, othersRecent>>

NextRecent ==
    \/ \E p \in RecentPaths, written \in BOOLEAN : LoadRecent(p, written)
    \/ \E p \in RecentPaths, written \in BOOLEAN : open_recent_file(p, written)

SpecRecent == InitRecent /\ [][NextRecent]_vars

NoDuplicates(list) == \A i, j \in DOMAIN list : list[i] = list[j] => i = j

Added(p) == \E written \in BOOLEAN : LoadRecent(p, written)

\* C23: the recent-files list never holds a path twice nor more than
\* max_recent_files paths; a path that is added becomes the first entry, and
\* adding a new path to a full list drops the last entry, the one added
\* longest ago, and nothing else.
C23_RecentFilesLru ==
    /\ [](NoDuplicates(recent_files) /\ Len(recent_files) <= max_recent_files)
    /\ [][\A p \in RecentPaths : Added(p) =>
            /\ recent_files'[1] = p
            /\ Tail(recent_files') =
                 IF InList(p, recent_files) THEN ListRemove(recent_files, p)
                 ELSE IF Len(recent_files) = max_recent_files
                 THEN SubSeq(recent_files, 1, max_recent_files - 1)
                 ELSE recent_files]_vars

\* an eleventh path was added to the full list 10, ..., 1 and path 1 is gone
C23_Witness ==
    /\ Len(recent_files) = max_recent_files
    /\ recent_files[1] = max_recent_files + 1
    /\ ~InList(1, recent_files)
    /\ recent_files[max_recent_files] = 2

(***************************************************************************)
(* The hybrid viewer's file list.  A handler works on the fields it reads   *)
(* and writes, gathered in a record; raised tells that an exception left    *)
(* the function.                                                            *)
(***************************************************************************)
MaxSavedFiles == 10     \* save_settings: valid_files[:10]

HyState(fs, cur, sel, view, panel) ==
    [files |-> fs, current |-> cur, selected |-> sel, view |-> view,
     panel |-> panel, raised |-> FALSE]

\* remove_file_from_list: the entries with the path go, update_file_list
\* clears the list widget; for an empty list self.hide_file_list() is called,
\* a method the class does not have (AttributeError)
remove_file_from_list(st, file_path) ==
    LET fs == SelectSeq(st.files, LAMBDA f : f # file_path)
    IN  [st EXCEPT !.files = fs, !.selected = None, !.raised = (fs = <<>>)]

\* generate_and_show_html: the page of the file, or the entry is removed
generate_and_show_html(st, xml_file_path, ex) ==
    IF xml_file_path \notin ex
    THEN remove_file_from_list(st, xml_file_path)
    ELSE [st EXCEPT !.view = xml_file_path]

on_file_selected(st, file_path, ex) ==
    IF file_path \notin ex
    THEN remove_file_from_list(st, file_path)
    ELSE generate_and_show_html([st EXCEPT !.current = file_path], file_path, ex)

\* select_file_in_list: the first item with the path becomes the current item
select_file_in_list(st, file_path, ex) ==
    IF InList(file_path, st.files)
    THEN on_file_selected([st EXCEPT !.selected = file_path], file_path, ex)
    ELSE st

\* load_xml_file without the test of lines 400-403
AlreadyListedNever(fs, file_path) == FALSE

AlreadyListed(fs, file_path) == InList(file_path, fs)

\* load_xml_file: ex holds the paths that exist when the function is entered,
\* later those that exist when the new item is selected
load_xml_file(st, file_path, ex, later) ==
    IF file_path \notin ex THEN st
    ELSE IF AlreadyListed(st.files, file_path)
    THEN select_file_in_list(st, file_path, later)
    ELSE select_file_in_list([st EXCEPT !.files = Append(@, file_path),
                                        !.panel = TRUE,
                                        !.selected = None],
                             file_path, later)

RECURSIVE AddFound(_, _)
AddFound(fs, found) ==
    IF found = <<>> THEN fs
    ELSE AddFound(IF InList(Head(found), fs) THEN fs ELSE Append(fs, Head(found)),
                  Tail(found))

\* load_xml_folder: found is what os.listdir gave, in its order
load_xml_folder(st, found, later) ==
    LET fs    == AddFound(st.files, found)
        added == Len(fs) - Len(st.files)
        st1   == [st EXCEPT !.files = fs, !.selected = None,
                            !.panel = IF added > 0 THEN TRUE ELSE @]
    IN  IF found = <<>> THEN st
        ELSE IF added > 0 THEN select_file_in_list(st1, found[1], later)
        ELSE st1

save_settings(saved, fs, restoring, ex) ==
    IF restoring THEN saved ELSE Take(ExistingFiles(fs, ex), MaxSavedFiles)

\* restore_last_session with the flag reset at the end of the try body
FlagAfterRestoreNoFinally(raised) == raised

\* restore_last_session, finally: is_restoring_session = False
FlagAfterRestore(raised) == FALSE

Here == HyState(xml_files, current_xml_file, selectedItem, webviewPage, file_list_panel)

Becomes(st) ==
    /\ xml_files' = st.files
    /\ current_xml_file' = st.current
    /\ selectedItem' = st.selected
    /\ webviewPage' = st.view
    /\ file_list_panel' = st.panel

\* files that disappear from the disk while a handler runs
GoneSets == {{}} \cup {{p} : p \in hyExisting}

FolderListings ==
    {l \in PathLists(Cardinality(Paths)) :
        NoDuplicates(l) /\ \A i \in DOMAIN l : l[i] \in hyExisting}

InitHybrid ==
    /\ doc = EmptyDoc
    /\ ViewerIdle
    /\ IdleButHybrid
    /\ xml_files = <<>>
    /\ current_xml_file = None
    /\ selectedItem = None
    /\ webviewPage = "welcome"
    /\ file_list_panel = FALSE
    /\ is_restoring_session = FALSE
    /\ settingsFile \in PathLists(MaxLastFiles)
    /\ hyExisting \in SUBSET Paths
    /\ hyPhase = "starting"
    /\ restoreQueue = <<>>
    /\ hyOutcome = NoOutcome

\* __init__ without arguments, restore_last_session up to the loop
RestoreBegin ==
    /\ hyPhase = "starting"
    /\ LET last_files == ExistingFiles(settingsFile, hyExisting)
       IN  IF last_files = <<>>
           THEN /\ hyPhase' = "running"
                /\ UNCHANGED <<is_restoring_session, restoreQueue>>
           ELSE /\ hyPhase' = "restoring"
                /\ is_restoring_session' = TRUE
                /\ restoreQueue' = last_files
    /\ UNCHANGED <<viewerVars, othersHybrid, xml_files, current_xml_file, selectedItem,
                   webviewPage, file_list_panel, settingsFile, hyExisting, hyOutcome>>

\* one round of the loop of restore_last_session; an exception, or the end of
\* the list, leads to the finally clause
RestoreStep(gone) ==
    /\ hyPhase = "restoring"
    /\ restoreQueue # <<>>
    /\ LET st   == load_xml_file(Here, Head(restoreQueue), hyExisting, hyExisting \ gone)
           done == st.raised \/ Tail(restoreQueue) = <<>>
       IN  /\ Becomes(st)
           /\ restoreQueue' = IF done THEN <<>> ELSE Tail(restoreQueue)
           /\ is_restoring_session' =
                IF done THEN FlagAfterRestore(st.raised) ELSE is_restoring_session
           /\ hyPhase' = IF done THEN "running" ELSE hyPhase
           /\ hyOutcome' = [op |-> "restore_last_session", raised |-> st.raised]
    /\ hyExisting' = hyExisting \ gone
    /\ UNCHANGED <<viewerVars, othersHybrid, settingsFile>>

\* open_xml_file with the path the dialog returned
OpenXmlFile(file_path, gone) ==
    /\ hyPhase = "running"
    /\ file_path \in hyExisting
    /\ LET st == load_xml_file(Here, file_path, hyExisting, hyExisting \ gone)
       IN  /\ Becomes(st)
           /\ settingsFile' =
                IF st.raised THEN settingsFile
                ELSE save_settings(settingsFile, st.files, is_restoring_session,
                                   hyExisting \ gone)
           /\ hyOutcome' = [op |-> "open_xml_file", path |-> file_path,
                            listed |-> InList(file_path, xml_files),
                            gone |-> gone, raised |-> st.raised]
    /\ hyExisting' = hyExisting \ gone
    /\ UNCHANGED <<viewerVars, othersHybrid, is_restoring_session, hyPhase, restoreQueue>>

\* open_xml_folder with the files os.listdir finds in the chosen folder
OpenXmlFolder(found, gone) ==
    /\ hyPhase = "running"
    /\ LET st == load_xml_folder(Here, found, hyExisting \ gone)
       IN  /\ Becomes(st)
           /\ settingsFile' =
                IF st.raised THEN settingsFile
                ELSE save_settings(settingsFile, st.files, is_restoring_session,
                                   hyExisting \ gone)
           /\ hyOutcome' = [op |-> "open_xml_folder", found |-> found,
                            before |-> xml_files,
                            gone |-> gone, raised |-> st.raised]
    /\ hyExisting' = hyExisting \ gone
    /\ UNCHANGED <<viewerVars, othersHybrid, is_restoring_session, hyPhase, restoreQueue>>

\* a click on an item of the file list: on_file_selected
ClickFile(file_path) ==
    /\ hyPhase = "running"
    /\ InList(file_path, xml_files)
    /\ LET st == on_file_selected([Here EXCEPT !.selected = file_path], file_path,
                                  hyExisting)
       IN  /\ Becomes(st)
           /\ hyOutcome' = [op |-> "on_file_selected", path |-> file_path,
                            before |-> xml_files,
                            missing |-> file_path \notin hyExisting,
                            raised |-> st.raised]
    /\ UNCHANGED <<viewerVars, othersHybrid, is_restoring_session, settingsFile,
                   hyExisting, hyPhase, restoreQueue>>

\* clear_file_list, with hide_file_list_if_empty
ClearFileList ==
    /\ hyPhase = "running"
    /\ xml_files' = <<>>
    /\ current_xml_file' = None
    /\ selectedItem' = None
    /\ file_list_panel' = FALSE
    /\ webviewPage' = IF file_list_panel THEN "welcome" ELSE webviewPage
    /\ hyOutcome' = [op |-> "clear_file_list", raised |-> FALSE]
    /\ UNCHANGED <<viewerVars, othersHybrid, is_restoring_session, settingsFile,
                   hyExisting, hyPhase, restoreQueue>>

\* reload_webview
ReloadWebview ==
    /\ hyPhase = "running"
    /\ LET st == IF current_xml_file # None
                 THEN generate_and_show_html(Here, current_xml_file, hyExisting)
                 ELSE Here
       IN  /\ Becomes(st)
           /\ hyOutcome' = [op |-> "reload_webview", raised |-> st.raised]
    /\ UNCHANGED <<viewerVars, othersHybrid, is_restoring_session, settingsFile,
                   hyExisting, hyPhase, restoreQueue>>

\* closeEvent: save_settings
CloseEvent ==
    /\ hyPhase = "running"
    /\ settingsFile' = save_settings(settingsFile, xml_files, is_restoring_session,
                                     hyExisting)
    /\ hyPhase' = "closed"
    /\ hyOutcome' = [op |-> "closeEvent", raised |-> FALSE]
    /\ UNCHANGED <<viewerVars, othersHybrid, xml_files, current_xml_file, selectedItem,
                   webviewPage, file_list_panel, is_restoring_session, hyExisting,
                   restoreQueue>>

\* a file is deleted outside the viewer
DeleteFile(file_path) ==
    /\ hyPhase \in {"restoring", "running"}
    /\ file_path \in hyExisting
    /\ hyExisting' = hyExisting \ {file_path}
    /\ UNCHANGED <<viewerVars, othersHybrid, xml_files, current_xml_file, selectedItem,
                   webviewPage, file_list_panel, is_restoring_session, settingsFile,
                   hyPhase, restoreQueue, hyOutcome>>

NextHybrid ==
    \/ RestoreBegin
    \/ \E gone \in GoneSets : RestoreStep(gone)
    \/ \E p \in Paths, gone \in GoneSets : OpenXmlFile(p, gone)
    \/ \E found \in FolderListings, gone \in GoneSets : OpenXmlFolder(found, gone)
    \/ \E p \in Paths : ClickFile(p)
    \/ ClearFileList
    \/ ReloadWebview
    \/ CloseEvent
    \/ \E p \in Paths : DeleteFile(p)

SpecHybrid == InitHybrid /\ [][NextHybrid]_vars

(***************************************************************************)
(* Claims about the hybrid viewer.                                         *)
(***************************************************************************)
OpenStep ==
    \/ \E p \in Paths, gone \in GoneSets : OpenXmlFile(p, gone)
    \/ \E found \in FolderListings, gone \in GoneSets : OpenXmlFolder(found, gone)

SavedNormally ==
    settingsFile' = Take(ExistingFiles(xml_files', hyExisting'), MaxSavedFiles)

NewlyAdded(found, before) == SelectSeq(found, LAMBDA f : ~InList(f, before))

FolderAdded ==
    /\ hyOutcome.op = "open_xml_folder"
    /\ hyOutcome.gone = {}
    /\ NewlyAdded(hyOutcome.found, hyOutcome.before) # <<>>

\* C25: after load_xml_folder added at least one file (none of the files
\* disappearing meanwhile), the first newly added file is the selected item,
\* the current file and the file shown.
C25_FirstNewFileSelected ==
    FolderAdded =>
        LET first == NewlyAdded(hyOutcome.found, hyOutcome.before)[1]
        IN  /\ selectedItem = first
            /\ current_xml_file = first
            /\ webviewPage = first

\* the part that holds: the first file of the folder listing is selected,
\* whether it is new or was listed before
FirstFoundFileSelected ==
    FolderAdded =>
        /\ selectedItem = hyOutcome.found[1]
        /\ current_xml_file = hyOutcome.found[1]
        /\ webviewPage = hyOutcome.found[1]

\* C26: xml_files never holds a path twice, and opening a path that is
\* already listed leaves the list as it is and selects that path.
C26_NoDuplicatePaths ==
    /\ [](NoDuplicates(xml_files))
    /\ [][\A p \in Paths :
            ((\E gone \in GoneSets : OpenXmlFile(p, gone)) /\ InList(p, xml_files)
                /\ p \in hyExisting')
            => (xml_files' = xml_files /\ selectedItem' = p /\ current_xml_file' = p)]_vars

\* a listed path was opened again while another file was selected
C26_Witness ==
    /\ hyOutcome.op = "open_xml_file"
    /\ hyOutcome.listed
    /\ ~hyOutcome.raised
    /\ Len(xml_files) >= 2
    /\ selectedItem = hyOutcome.path
    /\ xml_files[1] = hyOutcome.path

\* C27: current_xml_file is None or the path of an entry of xml_files.
C27_CurrentFileListed ==
    current_xml_file = None \/ InList(current_xml_file, xml_files)

\* the part that holds: clear_file_list resets the current file
ClearResetsCurrent ==
    hyOutcome.op = "clear_file_list" => (current_xml_file = None /\ xml_files = <<>>)

\* C28: selecting a listed file that no longer exists removes that entry and
\* no other from xml_files, and no exception leaves the handler.
C28_MissingFileRemoved ==
    (hyOutcome.op = "on_file_selected" /\ hyOutcome.missing) =>
        /\ xml_files = SelectSeq(hyOutcome.before, LAMBDA f : f # hyOutcome.path)
        /\ ~hyOutcome.raised

\* the parts that hold: the entry is removed and the others are kept; no
\* exception while another entry is left
MissingEntryRemoved ==
    (hyOutcome.op = "on_file_selected" /\ hyOutcome.missing) =>
        xml_files = SelectSeq(hyOutcome.before, LAMBDA f : f # hyOutcome.path)

MissingNotLastCompletes ==
    (hyOutcome.op = "on_file_selected" /\ hyOutcome.missing /\ xml_files # <<>>) =>
        ~hyOutcome.raised

(***************************************************************************)
(* Output of a command-line run.                                           *)
(***************************************************************************)
GeneratorRunEnded ==
    /\ exitStatus # NotRun
    /\ cliVariant \in {"viewer", "templated"}

\* C29: a run of an HTML generator that ends with exit code 0 has written
\* its output file; a run after which there is no output file did not end
\* with exit code 0.
C29_ExitZeroMeansWritten ==
    (GeneratorRunEnded /\ exitStatus.code = 0) => htmlOnDisk

\* the part that holds: exit code 0 after a parse that succeeded, with the
\* templates in place, comes with the output file
WrittenWhenGenerated ==
    (/\ GeneratorRunEnded
     /\ exitStatus.code = 0
     /\ parse_object_xml(xml_path).root # "None"
     /\ (cliVariant = "templated" => templatesPresent))
        => htmlOnDisk

(***************************************************************************)
(* main_app: the persisted last-opened path.                                *)
(***************************************************************************)
Page(kind, path) == [kind |-> kind, path |-> path]

WelcomePage == Page("welcome", None)

\* generate_html_from_xml: the viewer page, or an error page after a failed
\* parse or with an asset file missing
generate_html_from_xml(path, files, assets) ==
    IF files[path] # "ok" THEN Page("parse error", path)
    ELSE IF ~assets THEN Page("asset error", path)
    ELSE Page("viewer", path)

InitMainapp ==
    /\ doc = EmptyDoc
    /\ ViewerIdle
    /\ IdleButMainapp
    /\ maDisk \in [Paths -> FileStates]
    /\ maAssets \in BOOLEAN
    /\ last_opened_file = None
    /\ maPage = LoadingPage
    /\ maOutcome = NoOutcome

\* the else branch of load_initial_file: the page of the persisted path
\* when that path is a file, the welcome page otherwise
InitialPage(last, files, assets) ==
    IF last # None /\ files[last] # "missing"
    THEN generate_html_from_xml(last, files, assets)
    ELSE WelcomePage

\* load_initial_file; arg is sys.argv[1], None without an argument
LoadInitialFile(arg) ==
    /\ maPage = LoadingPage
    /\ IF arg # None /\ maDisk[arg] # "missing"
       THEN /\ maPage' = generate_html_from_xml(arg, maDisk, maAssets)
            /\ last_opened_file' = arg
       ELSE /\ maPage' = InitialPage(last_opened_file, maDisk, maAssets)
            /\ UNCHANGED last_opened_file
    /\ maOutcome' = [op |-> "load_initial_file", path |-> arg]
    /\ UNCHANGED <<viewerVars, othersMainapp, maDisk, maAssets>>

\* open_file; result is the path the dialog returned, None when cancelled
MainOpenFile(result) ==
    /\ maPage # LoadingPage
    /\ IF result # None
       THEN /\ maPage' = generate_html_from_xml(result, maDisk, maAssets)
            /\ last_opened_file' = result
       ELSE UNCHANGED <<maPage, last_opened_file>>
    /\ maOutcome' = [op |-> "open_file", path |-> result]
    /\ UNCHANGED <<viewerVars, othersMainapp, maDisk, maAssets>>

\* exit_app, and the application is started again
Restart ==
    /\ maPage # LoadingPage
    /\ maPage' = LoadingPage
    /\ maOutcome' = [op |-> "exit_app", path |-> None]
    /\ UNCHANGED <<viewerVars, othersMainapp, maDisk, maAssets, last_opened_file>>

NextMainapp ==
    \/ \E arg \in Paths \cup {None} : LoadInitialFile(arg)
    \/ \E result \in Paths \cup {None} : MainOpenFile(result)
    \/ Restart

SpecMainapp == InitMainapp /\ [][NextMainapp]_vars

\* C30: the persisted path changes only in an open that succeeds, one that
\* ends with the viewer page of the opened file.
C30_PersistedOnlyOnSuccess ==
    [][last_opened_file' # last_opened_file
        => maPage' = Page("viewer", last_opened_file')]_vars

\* the part that holds: an open that succeeds persists its path
SuccessfulOpenPersists ==
    (maOutcome.op = "open_file" /\ maOutcome.path # None
        /\ maPage = Page("viewer", maOutcome.path))
            => last_opened_file = maOutcome.path

\* a cancelled dialog changes neither the page nor the persisted path
CancelKeepsPersisted ==
    [][MainOpenFile(None) => UNCHANGED <<maPage, last_opened_file>>]_vars

====
